---- MODULE Spec2Model ----
(***************************************************************************)
(* Model of the semiconductor reliability calculator service:             *)
(*   backend/app/calculators/base.py      (InputField, validate_inputs)   *)
(*   backend/app/calculators/__init__.py  (CALCULATOR_REGISTRY)           *)
(*   backend/app/calculators/*.py         (the calculators)               *)
(*   backend/app/calculators/routes.py    (the HTTP endpoints)            *)
(*                                                                         *)
(* Numbers.  A Python float is modelled as an integer count of            *)
(* thousandths, a Python int as an integer.  A value is a record          *)
(* [t, s, n]: t is the Python type ("none", "str", "float", "int",        *)
(* "bool"), s the text of a str, n the number of a float (thousandths)    *)
(* or of an int.                                                          *)
(***************************************************************************)
EXTENDS Integers, Sequences, FiniteSets, TLC

VARIABLES
    op,             \* the stage of the request: "idle", "received", "handled"
    route,          \* the endpoint the request is routed to
    calculator_id,  \* the id in the request path
    inputs,         \* the inputs mapping handed to the calculator
    outcome,        \* what the called function returned or raised
    status,         \* the HTTP status of the response
    detail,         \* the message (200) or the HTTPException detail
    registry,       \* the module's CALCULATOR_REGISTRY dict, in insertion order
    users,          \* the rows of the users table, row i being the user of id i
    auth_tokens,    \* the rows of the auth_tokens table
    usage_logs,     \* the rows of the usage_logs table, in insertion order
    now,            \* datetime.utcnow(), in days
    requests        \* the requests the usage tracker middleware is serving

\* the state of the usage tracker and of the tables it shares with the
\* auth routes
service == <<users, auth_tokens, usage_logs, now, requests>>

vars == <<op, route, calculator_id, inputs, outcome, status, detail, registry, service>>

\* no request has passed through the middleware and the tables are empty
NoTraffic ==
    /\ users = <<>>
    /\ auth_tokens = <<>>
    /\ usage_logs = <<>>
    /\ now = 0
    /\ requests = <<>>

(***************************************************************************)
(* Python values                                                           *)
(***************************************************************************)
None == [t |-> "none", s |-> "", n |-> 0]

PyStr(x) == [t |-> "str", s |-> x, n |-> 0]

PyFloat(m) == [t |-> "float", s |-> "", n |-> m]

PyInt(k) == [t |-> "int", s |-> "", n |-> k]

\* a float finer than a thousandth: k ten-thousandths (0.0001 is the one
\* such literal of the program)
PyFloatE4(k) == [t |-> "float", s |-> "e-4", n |-> k]

\* float('inf'): also what a JSON body's Infinity is parsed to
PyInf == [t |-> "float", s |-> "inf", n |-> 0]

\* float('nan')
PyNaN == [t |-> "float", s |-> "nan", n |-> 0]

\* dict.get(key): None for a key that is absent (and for a JSON null)
Get(d, key) == IF key \in DOMAIN d THEN d[key] ELSE None

\* value is None or value == ""
IsEmpty(v) == v.t = "none" \/ (v.t = "str" /\ v.s = "")

(***************************************************************************)
(* Text helpers: str.strip, str.split, "; ".join, float(str), int(str)    *)
(***************************************************************************)
Digits == {"0", "1", "2", "3", "4", "5", "6", "7", "8", "9"}

DigitVal(c) ==
    CASE c = "0" -> 0 [] c = "1" -> 1 [] c = "2" -> 2 [] c = "3" -> 3
      [] c = "4" -> 4 [] c = "5" -> 5 [] c = "6" -> 6 [] c = "7" -> 7
      [] c = "8" -> 8 [] c = "9" -> 9

RECURSIVE LStrip(_)
LStrip(s) == IF Len(s) > 0 /\ Head(s) = " " THEN LStrip(Tail(s)) ELSE s

RECURSIVE RStrip(_)
RStrip(s) ==
    IF Len(s) > 0 /\ SubSeq(s, Len(s), Len(s)) = " "
    THEN RStrip(SubSeq(s, 1, Len(s) - 1))
    ELSE s

Strip(s) == RStrip(LStrip(s))

\* s starts with the text p
StartsWith(s, p) == Len(s) >= Len(p) /\ SubSeq(s, 1, Len(p)) = p

\* s.find(sep) + 1: the position of the first occurrence of sep, 0 for none
Find(s, sep) ==
    LET hits == {i \in 1..(Len(s) - Len(sep) + 1) : SubSeq(s, i, i + Len(sep) - 1) = sep}
    IN IF hits = {} THEN 0 ELSE CHOOSE i \in hits : \A j \in hits : i <= j

\* s.split(sep): the pieces between the separators, empty pieces kept
RECURSIVE Split(_, _)
Split(s, sep) ==
    LET i == Find(s, sep) IN
    IF i = 0 THEN <<s>>
    ELSE <<SubSeq(s, 1, i - 1)>> \o Split(SubSeq(s, i + Len(sep), Len(s)), sep)

\* sep.join(parts)
RECURSIVE Join(_, _)
Join(parts, sep) ==
    IF Len(parts) = 0 THEN ""
    ELSE IF Len(parts) = 1 THEN parts[1]
    ELSE parts[1] \o sep \o Join(Tail(parts), sep)

RECURSIVE AllDigits(_)
AllDigits(s) == Len(s) = 0 \/ (Head(s) \in Digits /\ AllDigits(Tail(s)))

RECURSIVE DigitsVal(_, _)
DigitsVal(s, acc) ==
    IF Len(s) = 0 THEN acc ELSE DigitsVal(Tail(s), 10 * acc + DigitVal(Head(s)))

\* position of the first "." of s, 0 when there is none
RECURSIVE DotPos(_, _)
DotPos(s, i) ==
    IF i > Len(s) THEN 0
    ELSE IF SubSeq(s, i, i) = "." THEN i ELSE DotPos(s, i + 1)

\* the first three decimals of a fraction as thousandths ("5" -> 500)
FracMilli(f) ==
    LET p == SubSeq(f \o "000", 1, 3) IN DigitsVal(p, 0)

\* an unsigned decimal literal: digits, at most one ".", at least one digit
IsUnsignedDecimal(u) ==
    LET d == DotPos(u, 1) IN
    IF d = 0 THEN Len(u) > 0 /\ AllDigits(u)
    ELSE /\ AllDigits(SubSeq(u, 1, d - 1))
         /\ AllDigits(SubSeq(u, d + 1, Len(u)))
         /\ Len(u) > 1

UnsignedMilli(u) ==
    LET d == DotPos(u, 1) IN
    IF d = 0 THEN 1000 * DigitsVal(u, 0)
    ELSE 1000 * DigitsVal(SubSeq(u, 1, d - 1), 0) + FracMilli(SubSeq(u, d + 1, Len(u)))

HasSign(t) == Len(t) > 0 /\ Head(t) \in {"-", "+"}

Unsigned(t) == IF HasSign(t) THEN Tail(t) ELSE t

Sign(t) == IF Len(t) > 0 /\ Head(t) = "-" THEN -1 ELSE 1

\* float(str) succeeds: surrounding blanks, a sign, a decimal literal
IsFloatText(s) == IsUnsignedDecimal(Unsigned(Strip(s)))

FloatOfText(s) == Sign(Strip(s)) * UnsignedMilli(Unsigned(Strip(s)))

\* int(str) succeeds: surrounding blanks, a sign, digits only
IsIntText(s) ==
    LET u == Unsigned(Strip(s)) IN Len(u) > 0 /\ AllDigits(u)

IntOfText(s) == Sign(Strip(s)) * DigitsVal(Unsigned(Strip(s)), 0)

\* int(float): truncation toward zero
Trunc(m) == IF m >= 0 THEN m \div 1000 ELSE -((-m) \div 1000)

\* str(float): repr of a float that is a whole number of thousandths
FracText(f) ==
    IF f % 100 = 0 THEN ToString(f \div 100)
    ELSE IF f % 10 = 0 THEN
        ToString(f \div 100) \o ToString((f \div 10) % 10)
    ELSE ToString(f \div 100) \o ToString((f \div 10) % 10) \o ToString(f % 10)

FloatText(m) ==
    LET a == IF m < 0 THEN -m ELSE m IN
    (IF m < 0 THEN "-" ELSE "") \o ToString(a \div 1000) \o "." \o FracText(a % 1000)

(***************************************************************************)
(* base.py: InputField, CalculatorInfo, BaseCalculator.validate_inputs     *)
(***************************************************************************)
\* InputField(...) with pydantic's defaults: unit and description carry no
\* behaviour and are left out; min_value and max_value are floats or None
InputField(name, label, type, required, min_value, max_value, options, default_value) ==
    [name |-> name, label |-> label, type |-> type, required |-> required,
     min_value |-> min_value, max_value |-> max_value,
     options |-> options, default_value |-> default_value]

\* the number of a float or an int, in thousandths
Milli(v) ==
    IF v.t = "int" THEN 1000 * v.n
    ELSE IF v.s = "e-4" THEN v.n \div 10
    ELSE v.n

\* value < bound and value > bound, bound in thousandths
Below(v, bound) ==
    /\ v # PyInf
    /\ IF v.s = "e-4" THEN v.n < 10 * bound ELSE Milli(v) < bound

Above(v, bound) ==
    \/ v = PyInf
    \/ IF v.s = "e-4" THEN v.n > 10 * bound ELSE Milli(v) > bound

\* float(value) raises ValueError or TypeError
FloatRaises(v) == v.t = "none" \/ (v.t = "str" /\ ~IsFloatText(v.s))

ToFloat(v) ==
    CASE v.t = "float" -> v
      [] v.t = "int" -> PyFloat(1000 * v.n)
      [] v.t = "str" -> PyFloat(FloatOfText(v.s))

\* int(value) raises ValueError or TypeError
IntRaises(v) == v.t = "none" \/ (v.t = "str" /\ ~IsIntText(v.s))

ToInt(v) ==
    CASE v.t = "int" -> v
      [] v.t = "float" -> PyInt(Trunc(v.n))
      [] v.t = "str" -> PyInt(IntOfText(v.s))

\* bool(value): truthiness
ToBool(v) ==
    [t |-> "bool", s |-> "",
     n |-> IF (v.t = "str" /\ v.s # "") \/ (v.t \in {"float", "int"} /\ v.n # 0)
           THEN 1 ELSE 0]

\* fault injection for C11: the select check accepts every value
InOptions_Any(v, options) == TRUE

\* value in field.options
InOptions(v, options) ==
    v.t = "str" /\ \E i \in 1..Len(options) : options[i] = v.s

\* the type conversion of one field (base.py 62-75): the converted value,
\* or the error message appended
Convert(field, value) ==
    CASE field.type = "float" ->
           IF FloatRaises(value)
           THEN [error |-> field.label \o " must be a valid " \o field.type, value |-> None]
           ELSE [error |-> "", value |-> ToFloat(value)]
      [] field.type = "int" ->
           IF IntRaises(value)
           THEN [error |-> field.label \o " must be a valid " \o field.type, value |-> None]
           ELSE [error |-> "", value |-> ToInt(value)]
      [] field.type = "bool" -> [error |-> "", value |-> ToBool(value)]
      [] field.type = "select" ->
           IF ~InOptions(value, field.options)
           THEN [error |-> field.label \o " must be one of: " \o Join(field.options, ", "),
                 value |-> None]
           ELSE [error |-> "", value |-> value]
      [] OTHER -> [error |-> "", value |-> value]

\* fault injection for C2: the range check without its max_value arm
RangeError_NoMax(field, value) ==
    IF field.type \in {"float", "int"}
    THEN IF field.min_value.t # "none" /\ Below(value, field.min_value.n)
         THEN field.label \o " must be >= " \o FloatText(field.min_value.n)
         ELSE ""
    ELSE ""

\* the range validation of one converted value (base.py 77-84)
RangeError(field, value) ==
    IF field.type \in {"float", "int"}
    THEN IF field.min_value.t # "none" /\ Below(value, field.min_value.n)
         THEN field.label \o " must be >= " \o FloatText(field.min_value.n)
         ELSE IF field.max_value.t # "none" /\ Above(value, field.max_value.n)
         THEN field.label \o " must be <= " \o FloatText(field.max_value.n)
         ELSE ""
    ELSE ""

\* fault injection for C13: an empty optional field is given the field's
\* default_value
ValidateField_DefaultInjected(field, value) ==
    IF field.required /\ IsEmpty(value)
    THEN [error |-> field.label \o " is required", store |-> FALSE, value |-> None]
    ELSE IF ~field.required /\ IsEmpty(value)
    THEN [error |-> "", store |-> TRUE, value |-> field.default_value]
    ELSE LET c == Convert(field, value) IN
         IF c.error # "" THEN [error |-> c.error, store |-> FALSE, value |-> None]
         ELSE LET r == RangeError(field, c.value) IN
              IF r # "" THEN [error |-> r, store |-> FALSE, value |-> None]
              ELSE [error |-> "", store |-> TRUE, value |-> c.value]

\* one iteration of the loop over self.info.input_fields (base.py 49-86):
\* error is the message appended ("" for none), store says whether
\* validated[field.name] is assigned, value is what is assigned
ValidateField(field, value) ==
    IF field.required /\ IsEmpty(value)
    THEN [error |-> field.label \o " is required", store |-> FALSE, value |-> None]
    ELSE IF ~field.required /\ IsEmpty(value)
    THEN [error |-> "", store |-> FALSE, value |-> None]
    ELSE LET c == Convert(field, value) IN
         IF c.error # "" THEN [error |-> c.error, store |-> FALSE, value |-> None]
         ELSE LET r == RangeError(field, c.value) IN
              IF r # "" THEN [error |-> r, store |-> FALSE, value |-> None]
              ELSE [error |-> "", store |-> TRUE, value |-> c.value]

RECURSIVE ValidateLoop(_, _, _, _)
ValidateLoop(fields, raw, validated, errors) ==
    IF Len(fields) = 0 THEN [validated |-> validated, errors |-> errors]
    ELSE LET field == Head(fields)
             v == ValidateField(field, Get(raw, field.name))
         IN ValidateLoop(Tail(fields), raw,
                IF v.store THEN (field.name :> v.value) @@ validated ELSE validated,
                IF v.error # "" THEN Append(errors, v.error) ELSE errors)

\* the outcome of a call: exc is the exception raised ("" when the call
\* returns), message its text, value what is returned
Returns(value) == [exc |-> "", message |-> "", value |-> value]

Raises(exc, message) == [exc |-> exc, message |-> message, value |-> <<>>]

\* fault injection for C1: a fail-fast validate_inputs, raising the first
\* error alone
validate_inputs_FailFast(fields, raw) ==
    LET r == ValidateLoop(fields, raw, <<>>, <<>>) IN
    IF Len(r.errors) > 0 THEN Raises("ValueError", r.errors[1])
    ELSE Returns(r.validated)

\* BaseCalculator.validate_inputs(inputs) for a calculator with these fields
validate_inputs(fields, raw) ==
    LET r == ValidateLoop(fields, raw, <<>>, <<>>) IN
    IF Len(r.errors) > 0 THEN Raises("ValueError", Join(r.errors, "; "))
    ELSE Returns(r.validated)

(***************************************************************************)
(* The calculators' declarations (info.input_fields)                       *)
(***************************************************************************)
ConfidenceOptions == <<"90", "95", "99">>

MTBFFields ==
    << InputField("failure_rate", "Failure Rate (λ)", "float", TRUE,
                  PyFloat(0), None, <<>>, None),
       InputField("operating_hours", "Operating Hours", "float", FALSE,
                  PyFloat(0), None, <<>>, None),
       InputField("confidence_level", "Confidence Level", "select", TRUE,
                  None, None, ConfidenceOptions, PyStr("95")),
       InputField("num_failures", "Number of Failures", "int", FALSE,
                  PyFloat(0), PyFloat(1000000), <<>>, None),
       InputField("test_time", "Total Test Time", "float", FALSE,
                  PyFloat(0), None, <<>>, None) >>

DuaneFields ==
    << InputField("failure_times", "Failure Times", "text", TRUE,
                  None, None, <<>>, None),
       InputField("target_time", "Target Time", "float", FALSE,
                  PyFloat(0), None, <<>>, None),
       InputField("confidence_level", "Confidence Level", "select", TRUE,
                  None, None, ConfidenceOptions, PyStr("95")),
       InputField("total_test_time", "Total Test Time", "float", FALSE,
                  PyFloat(0), None, <<>>, None) >>

\* fault injection for C12: target_reliability with min_value 0.0
TestSampleSizeFields_MinZero ==
    << InputField("target_reliability", "Target Reliability", "float", TRUE,
                  PyFloat(0), PyFloat(999), <<>>, None),
       InputField("confidence_level", "Confidence Level", "select", TRUE,
                  None, None, <<"80", "90", "95", "99">>, PyStr("90")),
       InputField("test_type", "Test Type", "select", TRUE,
                  None, None, <<"success_run", "time_terminated", "failure_terminated">>,
                  PyStr("success_run")),
       InputField("test_duration", "Test Duration", "float", FALSE,
                  PyFloat(0), None, <<>>, None),
       InputField("target_mtbf", "Target MTBF", "float", FALSE,
                  PyFloat(0), None, <<>>, None),
       InputField("max_failures", "Maximum Allowed Failures", "int", FALSE,
                  PyFloat(0), PyFloat(100000), <<>>, None) >>

TestSampleSizeFields ==
    << InputField("target_reliability", "Target Reliability", "float", TRUE,
                  PyFloat(100), PyFloat(999), <<>>, None),
       InputField("confidence_level", "Confidence Level", "select", TRUE,
                  None, None, <<"80", "90", "95", "99">>, PyStr("90")),
       InputField("test_type", "Test Type", "select", TRUE,
                  None, None, <<"success_run", "time_terminated", "failure_terminated">>,
                  PyStr("success_run")),
       InputField("test_duration", "Test Duration", "float", FALSE,
                  PyFloat(0), None, <<>>, None),
       InputField("target_mtbf", "Target MTBF", "float", FALSE,
                  PyFloat(0), None, <<>>, None),
       InputField("max_failures", "Maximum Allowed Failures", "int", FALSE,
                  PyFloat(0), PyFloat(100000), <<>>, None) >>

Dummy1Fields ==
    << InputField("stress_level", "Stress Level", "float", TRUE,
                  PyFloat(0), None, <<>>, None),
       InputField("temperature", "Temperature", "float", TRUE,
                  PyFloat(-50000), PyFloat(200000), <<>>, None) >>

Dummy2Fields ==
    << InputField("burn_in_time", "Burn-in Time", "float", TRUE,
                  PyFloat(0), None, <<>>, None),
       InputField("cost_per_hour", "Cost per Hour", "float", TRUE,
                  PyFloat(0), None, <<>>, None),
       InputField("defect_rate", "Initial Defect Rate", "float", TRUE,
                  PyFloat(0), PyFloat(100000), <<>>, None) >>

Dummy3Fields ==
    << InputField("lifetime_data", "Lifetime Data", "text", TRUE,
                  None, None, <<>>, None),
       InputField("distribution_type", "Distribution Type", "select", TRUE,
                  None, None, <<"Exponential", "Weibull", "Lognormal", "Gamma">>,
                  PyStr("Weibull")),
       InputField("censoring_type", "Censoring Type", "select", TRUE,
                  None, None, <<"None", "Right", "Left", "Interval">>, PyStr("None")) >>

(***************************************************************************)
(* __init__.py: CALCULATOR_REGISTRY, in registration order                 *)
(***************************************************************************)
\* the dict literal: each key with the instance it holds, named by its class
CALCULATOR_REGISTRY ==
    << [key |-> "mtbf", calculator |-> "MTBFCalculator"],
       [key |-> "duane_model", calculator |-> "DuaneModelCalculator"],
       [key |-> "test_sample_size", calculator |-> "TestSampleSizeCalculator"],
       [key |-> "dummy_calculator_1", calculator |-> "DummyCalculator1"],
       [key |-> "dummy_calculator_2", calculator |-> "DummyCalculator2"],
       [key |-> "dummy_calculator_3", calculator |-> "DummyCalculator3"] >>

\* the keys of the dict
RegisteredIds == {registry[i].key : i \in 1..Len(registry)}

\* calculator_id in CALCULATOR_REGISTRY
IsRegistered(id) == id \in RegisteredIds

\* CALCULATOR_REGISTRY[calculator_id].info: the info property of each class
\* builds its CalculatorInfo anew
InfoOf(id) ==
    [MTBFCalculator |-> [id |-> "mtbf", input_fields |-> MTBFFields],
     DuaneModelCalculator |-> [id |-> "duane_model", input_fields |-> DuaneFields],
     TestSampleSizeCalculator |->
        [id |-> "test_sample_size", input_fields |-> TestSampleSizeFields],
     DummyCalculator1 |-> [id |-> "dummy_calculator_1", input_fields |-> Dummy1Fields],
     DummyCalculator2 |-> [id |-> "dummy_calculator_2", input_fields |-> Dummy2Fields],
     DummyCalculator3 |-> [id |-> "dummy_calculator_3", input_fields |-> Dummy3Fields]
    ][registry[CHOOSE i \in 1..Len(registry) : registry[i].key = id].calculator]

FieldsOf(id) == InfoOf(id).input_fields

FieldNames(fields) == {fields[i].name : i \in 1..Len(fields)}

(***************************************************************************)
(* test_sample_size.py: TestSampleSizeCalculator.calculate                 *)
(*                                                                         *)
(* math.log is tabulated, in units of 1e-7, on the arguments the           *)
(* enumerated inputs produce.  1 - 0.9 evaluates to 0.09999999999999998,   *)
(* so its logarithm lies strictly below math.log(0.1): the table keeps     *)
(* that order.  The "description" text of the result is left out.          *)
(***************************************************************************)
\* math.log(1 - confidence_level / 100)
LogOneMinusConfidence(confidence_level) ==
    CASE confidence_level = 80 -> -16094379
      [] confidence_level = 90 -> -23025852
      [] confidence_level = 95 -> -29957323
      [] confidence_level = 99 -> -46051702

\* math.log(target_reliability), target_reliability in thousandths.
\* 1 - 0.8 evaluates to 0.19999999999999996, so math.log(0.2) lies strictly
\* above math.log(1 - 0.8): the entry of 0.2 keeps that order.
LogReliability(target_reliability) ==
    CASE target_reliability = 50 -> -29957323
      [] target_reliability = 100 -> -23025851
      [] target_reliability = 150 -> -18971200
      [] target_reliability = 200 -> -16094378
      [] target_reliability = 250 -> -13862944
      [] target_reliability = 300 -> -12039728
      [] target_reliability = 350 -> -10498221
      [] target_reliability = 400 -> -9162907
      [] target_reliability = 450 -> -7985077
      [] target_reliability = 500 -> -6931472
      [] target_reliability = 550 -> -5978370
      [] target_reliability = 600 -> -5108256
      [] target_reliability = 650 -> -4307829
      [] target_reliability = 700 -> -3566749
      [] target_reliability = 750 -> -2876821
      [] target_reliability = 800 -> -2231436
      [] target_reliability = 850 -> -1625189
      [] target_reliability = 900 -> -1053605
      [] target_reliability = 950 -> -512933
      [] target_reliability = 990 -> -100503
      [] target_reliability = 999 -> -10005

\* math.ceil(a / b) for a >= 0, b > 0
CeilDiv(a, b) == (a + b - 1) \div b

\* fault injection for C21: the quotient truncated instead of math.ceil
SuccessRunSampleSize_Floor(confidence_level, target_reliability) ==
    (-LogOneMinusConfidence(confidence_level)) \div (-LogReliability(target_reliability))

\* math.ceil(math.log(1 - confidence_decimal) / math.log(target_reliability))
SuccessRunSampleSize(confidence_level, target_reliability) ==
    CeilDiv(-LogOneMinusConfidence(confidence_level), -LogReliability(target_reliability))

\* chi_square_values, in thousandths: confidence level -> failures -> value
chi_square_values ==
    (80 :> (0 :> 1609 @@ 1 :> 3219 @@ 2 :> 4642 @@ 3 :> 5989)) @@
    (90 :> (0 :> 2303 @@ 1 :> 4605 @@ 2 :> 6251 @@ 3 :> 7779)) @@
    (95 :> (0 :> 2996 @@ 1 :> 5991 @@ 2 :> 7815 @@ 3 :> 9488)) @@
    (99 :> (0 :> 4605 @@ 1 :> 9210 @@ 2 :> 11345 @@ 3 :> 13277))

\* round(x, 2) of a float in thousandths, as thousandths
Round2(m) == ((m + 5) \div 10) * 10

\* a float is truthy when it is not None and not zero
Truthy(v) == v.t # "none" /\ v.n # 0

\* the recommendations list (test_sample_size.py 160-169)
Recommendations(target_reliability, confidence_level, test_type) ==
    (IF target_reliability > 990
     THEN <<"High reliability target requires large sample sizes">> ELSE <<>>)
    \o (IF confidence_level >= 95
        THEN <<"High confidence level increases required sample size">> ELSE <<>>)
    \o (IF test_type = "success_run" /\ target_reliability > 950
        THEN <<"Consider time-terminated testing for cost efficiency">> ELSE <<>>)

\* fault injection for C19: the chosen confidence level is not left out
Alternative_Unfiltered(alt_conf, confidence_level, target_reliability, required_sample_size) ==
    << [confidence_level |-> alt_conf,
        sample_size |-> SuccessRunSampleSize(alt_conf, target_reliability),
        reduction |-> required_sample_size
                      - SuccessRunSampleSize(alt_conf, target_reliability)] >>

\* one entry of alternative_scenarios for alt_conf (test_sample_size.py 180-187)
Alternative(alt_conf, confidence_level, target_reliability, required_sample_size) ==
    IF alt_conf # confidence_level
    THEN << [confidence_level |-> alt_conf,
             sample_size |-> SuccessRunSampleSize(alt_conf, target_reliability),
             reduction |-> required_sample_size
                           - SuccessRunSampleSize(alt_conf, target_reliability)] >>
    ELSE <<>>

\* the branch on test_type (test_sample_size.py 102-149): the keys the
\* branch adds to results, or the KeyError of the chi-square lookup
TestTypeBranch(test_type, confidence_level, target_reliability, test_duration, target_mtbf, max_failures) ==
    IF test_type = "success_run"
    THEN Returns(
           "required_sample_size" :> SuccessRunSampleSize(confidence_level, target_reliability)
           @@ "test_method" :> "Success Run Test")
    ELSE IF test_type = "time_terminated" /\ Truthy(test_duration) /\ Truthy(target_mtbf)
    THEN IF max_failures \notin DOMAIN chi_square_values[confidence_level]
         THEN Raises("KeyError", ToString(max_failures))
         ELSE LET chi_square == chi_square_values[confidence_level][max_failures]
                  total_test_time == (chi_square * target_mtbf.n) \div 2000
              IN Returns(
                   "required_sample_size" :> CeilDiv(total_test_time, test_duration.n)
                   @@ "total_test_time" :> Round2(total_test_time)
                   @@ "test_duration_per_unit" :> test_duration.n
                   @@ "test_method" :> "Time-Terminated Test"
                   @@ "chi_square_value" :> chi_square)
    ELSE IF test_type = "failure_terminated" /\ Truthy(target_mtbf)
    THEN IF max_failures \notin DOMAIN chi_square_values[confidence_level]
         THEN Raises("KeyError", ToString(max_failures))
         ELSE LET chi_square == chi_square_values[confidence_level][max_failures]
                  total_test_time == (chi_square * target_mtbf.n) \div 2000
              IN Returns(
                   "estimated_sample_size" :>
                       (IF max_failures > 0 THEN max_failures * 3 ELSE 10)
                   @@ "expected_total_test_time" :> Round2(total_test_time)
                   @@ "test_method" :> "Failure-Terminated Test"
                   @@ "chi_square_value" :> chi_square)
    ELSE Returns(<<>>)

\* the test efficiency metrics (test_sample_size.py 152-157)
EfficiencyMetrics(results, test_duration) ==
    IF "required_sample_size" \in DOMAIN results /\ Truthy(test_duration)
    THEN LET total_test_hours == results["required_sample_size"] * test_duration.n IN
         "total_test_hours" :> Round2(total_test_hours)
         @@ "test_cost_factor" :> Round2(total_test_hours \div 1000)
    ELSE <<>>

\* the alternative_scenarios list (test_sample_size.py 174-187)
Alternatives(test_type, confidence_level, target_reliability, results) ==
    IF test_type = "success_run"
    THEN Alternative(80, confidence_level, target_reliability,
                     results["required_sample_size"])
         \o Alternative(90, confidence_level, target_reliability,
                        results["required_sample_size"])
    ELSE <<>>

\* results[key] = list, when the list is not empty
\* (test_sample_size.py 171-172, 189-190)
IfAny(key, list) == IF Len(list) > 0 THEN key :> list ELSE <<>>

\* the end of calculate (test_sample_size.py 151-192), results holding the
\* inputs echoed and the keys of the test_type branch
TestSampleSizeFinish(results, test_type, confidence_level, target_reliability, test_duration) ==
    Returns(
        results
        @@ EfficiencyMetrics(results, test_duration)
        @@ IfAny("recommendations",
                 Recommendations(target_reliability, confidence_level, test_type))
        @@ IfAny("alternative_scenarios",
                 Alternatives(test_type, confidence_level, target_reliability, results)))

\* calculate once the test_type branch has run (test_sample_size.py 95-192)
TestSampleSizeResults(branch, test_type, confidence_level, target_reliability, test_duration, max_failures) ==
    IF branch.exc # "" THEN branch
    ELSE TestSampleSizeFinish(
             branch.value
                 @@ "target_reliability" :> target_reliability
                 @@ "confidence_level" :> confidence_level
                 @@ "test_type" :> test_type
                 @@ "max_failures_allowed" :> max_failures,
             test_type, confidence_level, target_reliability, test_duration)

\* calculate on its local variables (test_sample_size.py 80-192)
TestSampleSizeAnalysis(target_reliability, confidence_level, test_type, test_duration, target_mtbf, max_failures) ==
    TestSampleSizeResults(
        TestTypeBranch(test_type, confidence_level, target_reliability,
                       test_duration, target_mtbf, max_failures),
        test_type, confidence_level, target_reliability, test_duration, max_failures)

\* calculate once validate_inputs has answered v (test_sample_size.py 78-192)
TestSampleSizeValidated(v) ==
    IF v.exc # "" THEN v
    ELSE TestSampleSizeAnalysis(
             v.value["target_reliability"].n,
             IntOfText(v.value["confidence_level"].s),
             v.value["test_type"].s,
             Get(v.value, "test_duration"),
             Get(v.value, "target_mtbf"),
             IF "max_failures" \in DOMAIN v.value THEN v.value["max_failures"].n ELSE 0)

\* TestSampleSizeCalculator.calculate(inputs)
TestSampleSizeCalculate(raw) ==
    TestSampleSizeValidated(validate_inputs(TestSampleSizeFields, raw))

(***************************************************************************)
(* mtbf.py: MTBFCalculator                                                 *)
(*                                                                         *)
(* Results the code rounds to 4 to 8 decimals are kept to thousandths.     *)
(* math.exp and scipy's stats.chi2.ppf are tabulated on the arguments the  *)
(* enumerated inputs produce.                                              *)
(***************************************************************************)
\* the one-character text U+221E the code reports for an infinite bound
\* (written in ASCII here)
InfinitySign == "oo"

\* round(a / b) for a >= 0, b > 0
RoundDiv(a, b) == (2 * a + b) \div (2 * b)

\* 1 / failure_rate in thousandths
Reciprocal(v) ==
    IF v = PyInf THEN 0
    ELSE IF v.s = "e-4" THEN RoundDiv(10000000, v.n) ELSE RoundDiv(1000000, v.n)

\* round(a * b / c) for a, b >= 0, c > 0, without overflowing 32 bits
MulDiv(a, b, c) == (a \div c) * b + RoundDiv((a % c) * b, c)

\* math.exp(-x) in thousandths, x in thousandths
ExpNeg(x) ==
    CASE x = 0 -> 1000
      [] x = 1000 -> 368
      [] x = 3000 -> 50
      [] x >= 20000 -> 0

\* stats.chi2.ppf(p, df) in thousandths, p in thousandths
chi2_ppf(pr, df) ==
    CASE df = 2 /\ pr = 950 -> 5991
      [] df = 2 /\ pr = 975 -> 7378
      [] df = 2 /\ pr = 995 -> 10597
      [] df = 4 /\ pr = 50 -> 711
      [] df = 4 /\ pr = 25 -> 484
      [] df = 4 /\ pr = 5 -> 207
      [] df = 4 /\ pr = 950 -> 9488
      [] df = 4 /\ pr = 975 -> 11143
      [] df = 4 /\ pr = 995 -> 14860
      [] df = 20 /\ pr = 50 -> 10851
      [] df = 20 /\ pr = 25 -> 9591
      [] df = 20 /\ pr = 5 -> 7434
      [] df = 20 /\ pr = 950 -> 31410
      [] df = 20 /\ pr = 975 -> 34170
      [] df = 20 /\ pr = 995 -> 39997

\* alpha / 2 in thousandths, alpha = (100 - confidence_level) / 100
HalfAlpha(confidence_level) == (100 - confidence_level) * 5

\* fault injection for C15: an infinite bound is reported as the float
RoundedOrInfinitySign_Float(v) ==
    IF v # PyInf THEN PyFloat(Round2(v.n)) ELSE PyInf

\* round(v, 2) if v != float('inf') else the infinity sign (mtbf.py 177, 182)
RoundedOrInfinitySign(v) ==
    IF v # PyInf THEN PyFloat(Round2(v.n)) ELSE PyStr(InfinitySign)

\* MTBFCalculator._precise_confidence_interval_from_test_data
\* (num_failures an int, test_time a float in thousandths)
_precise_confidence_interval_from_test_data(num_failures, test_time, confidence_level) ==
    LET half == HalfAlpha(confidence_level)
        df == IF num_failures = 0 THEN 2 ELSE 2 * num_failures
        chi2_upper == chi2_ppf(1000 - half, df)
        chi2_lower == chi2_ppf(half, df)
        mtbf_lower == MulDiv(2 * test_time, 1000, chi2_upper)
        mtbf_upper == IF num_failures = 0 THEN PyInf
                      ELSE PyFloat(MulDiv(2 * test_time, 1000, chi2_lower))
        failure_rate_lower == IF num_failures = 0 THEN 0
                              ELSE MulDiv(chi2_lower, 1000, 2 * test_time)
        failure_rate_upper == MulDiv(chi2_upper, 1000, 2 * test_time)
        observed_mtbf == IF num_failures > 0
                         THEN PyFloat(RoundDiv(test_time, num_failures)) ELSE PyInf
        observed_failure_rate == IF num_failures > 0
                                 THEN MulDiv(1000 * num_failures, 1000, test_time) ELSE 0
    IN "precise_analysis" :>
         [test_data |->
            [failures |-> num_failures,
             test_time |-> test_time,
             observed_mtbf |-> RoundedOrInfinitySign(observed_mtbf),
             observed_failure_rate |-> observed_failure_rate],
          mtbf_confidence_interval |->
            [lower |-> Round2(mtbf_lower),
             upper |-> RoundedOrInfinitySign(mtbf_upper),
             method |-> "Chi-square exact"],
          failure_rate_confidence_interval |->
            [lower |-> failure_rate_lower,
             upper |-> failure_rate_upper,
             method |-> "Chi-square exact"]]

\* MTBFCalculator._confidence_interval_from_failure_rate
\* (z_values[confidence_level] is read and never used: its keys are the
\* three confidence options, so the lookup cannot fail after validation)
_confidence_interval_from_failure_rate(failure_rate, confidence_level) ==
    LET mtbf == Reciprocal(failure_rate)
        half == HalfAlpha(confidence_level)
        assumed_failures == 10
        df == 2 * assumed_failures
        chi2_lower == chi2_ppf(half, df)
        chi2_upper == chi2_ppf(1000 - half, df)
        mtbf_lower == MulDiv(mtbf * df, 1000, chi2_upper)
        mtbf_upper == MulDiv(mtbf * df, 1000, chi2_lower)
    IN IF mtbf_upper = 0 \/ mtbf_lower = 0
       THEN Raises("ZeroDivisionError", "float division by zero")
       ELSE Returns(
         "approximate_analysis" :>
         [note |-> "Approximate confidence intervals (assuming ~"
                   \o ToString(assumed_failures) \o " failures observed)",
          mtbf_confidence_interval |->
            [lower |-> Round2(mtbf_lower), upper |-> Round2(mtbf_upper),
             method |-> "Chi-square approximation"],
          failure_rate_confidence_interval |->
            [lower |-> RoundDiv(1000000, mtbf_upper),
             upper |-> RoundDiv(1000000, mtbf_lower),
             method |-> "Chi-square approximation"]])

\* MTBFCalculator._calculate_precise_confidence_intervals
_calculate_precise_confidence_intervals(failure_rate, confidence_level, num_failures, test_time) ==
    IF num_failures.t # "none" /\ test_time.t # "none" /\ test_time.n > 0
    THEN Returns(_precise_confidence_interval_from_test_data(num_failures.n, test_time.n,
                                                             confidence_level))
    ELSE IF Above(failure_rate, 0)
    THEN _confidence_interval_from_failure_rate(failure_rate, confidence_level)
    ELSE Returns(<<>>)

\* fault injection for C16: mtbf_hours reported without round(..., 2)
BasicResults_Unrounded(failure_rate, confidence_level, mtbf_hours) ==
    "mtbf_hours" :> mtbf_hours
    @@ "mtbf_years" :> (IF mtbf_hours = PyInf THEN PyInf
                        ELSE PyFloat(RoundDiv(mtbf_hours.n, 8766)))
    @@ "failure_rate" :> failure_rate
    @@ "confidence_level" :> confidence_level

\* the basic results (mtbf.py 77-85)
BasicResults(failure_rate, confidence_level, mtbf_hours) ==
    "mtbf_hours" :> (IF mtbf_hours = PyInf THEN PyInf ELSE PyFloat(Round2(mtbf_hours.n)))
    @@ "mtbf_years" :> (IF mtbf_hours = PyInf THEN PyInf
                        ELSE PyFloat(RoundDiv(mtbf_hours.n, 8766)))
    @@ "failure_rate" :> failure_rate
    @@ "confidence_level" :> confidence_level

\* the keys added for a reliability (mtbf.py 90-97)
ReliabilityResults(reliability, operating_hours) ==
    "reliability" :> reliability
    @@ "unreliability" :> 1000 - reliability
    @@ "reliability_percent" :> reliability * 100
    @@ "operating_hours" :> operating_hours.n

\* the keys added when -failure_rate * operating_hours is not a number
\* (an infinite rate over 0 hours): nan goes through exp, the subtraction
\* and round
ReliabilityNaN(operating_hours) ==
    "reliability" :> PyNaN
    @@ "unreliability" :> PyNaN
    @@ "reliability_percent" :> PyNaN
    @@ "operating_hours" :> operating_hours.n

\* the reliability at operating_hours, when given (mtbf.py 88-97)
ReliabilityAt(failure_rate, operating_hours) ==
    IF operating_hours.t = "none" THEN <<>>
    ELSE IF failure_rate = PyInf
    THEN (IF operating_hours.n = 0 THEN ReliabilityNaN(operating_hours)
          ELSE ReliabilityResults(0, operating_hours))
    ELSE ReliabilityResults(ExpNeg(MulDiv(Milli(failure_rate), operating_hours.n, 1000)),
                            operating_hours)

\* the end of calculate (mtbf.py 99-107), confidence_intervals being the
\* outcome of _calculate_precise_confidence_intervals
MTBFResults(results, confidence_intervals) ==
    IF confidence_intervals.exc # "" THEN confidence_intervals
    ELSE Returns(results @@ confidence_intervals.value)

\* calculate on its local variables (mtbf.py 77-107)
MTBFAnalysis(failure_rate, operating_hours, confidence_level, num_failures, test_time) ==
    MTBFResults(
        BasicResults(failure_rate, confidence_level,
                     IF Above(failure_rate, 0) THEN PyFloat(Reciprocal(failure_rate))
                     ELSE PyInf)
        @@ ReliabilityAt(failure_rate, operating_hours),
        _calculate_precise_confidence_intervals(failure_rate, confidence_level,
                                                num_failures, test_time))

\* calculate once validate_inputs has answered v (mtbf.py 68-107)
MTBFValidated(v) ==
    IF v.exc # "" THEN v
    ELSE MTBFAnalysis(v.value["failure_rate"],
                      Get(v.value, "operating_hours"),
                      IntOfText(v.value["confidence_level"].s),
                      Get(v.value, "num_failures"),
                      Get(v.value, "test_time"))

\* MTBFCalculator.calculate(inputs)
MTBFCalculate(raw) == MTBFValidated(validate_inputs(MTBFFields, raw))

(***************************************************************************)
(* duanemodel.py: DuaneModelCalculator                                     *)
(*                                                                         *)
(* math.log is tabulated in thousandths on the whole numbers 1..10 and on  *)
(* the times of the example request, the times the enumerated inputs       *)
(* produce; the regression is carried out in                               *)
(* that fixed point, and beta is kept in millionths as round(beta, 6)      *)
(* leaves it.  Results that need math.exp or a power (alpha, the predicted *)
(* MTBF values, r_squared, the standard errors) are left out; the          *)
(* prediction keeps ln_mtbf, the logarithm the code takes of the           *)
(* predicted cumulative MTBF.                                              *)
(***************************************************************************)
\* list.sort(): ascending
RECURSIVE Insert(_, _)
Insert(x, sorted) ==
    IF Len(sorted) = 0 THEN <<x>>
    ELSE IF x <= Head(sorted) THEN <<x>> \o sorted
    ELSE <<Head(sorted)>> \o Insert(x, Tail(sorted))

\* fault injection for C8: the list left as parsed, failure_times.sort()
\* missing
Sort_Missing(list) == list

\* failure_times.sort() (duanemodel.py 67), as an insertion sort
RECURSIVE Sort(_)
Sort(list) == IF Len(list) = 0 THEN <<>> ELSE Insert(Head(list), Sort(Tail(list)))

\* fault injection for C9: the comprehension without its "if x.strip()"
\* filter, so that empty pieces are kept
FailureTimeTokens_KeepEmpty(failure_times_str) ==
    LET pieces == Split(failure_times_str, ",")
    IN [i \in 1..Len(pieces) |-> Strip(pieces[i])]

\* [x.strip() for x in failure_times_str.split(',') if x.strip()]
FailureTimeTokens(failure_times_str) ==
    LET pieces == Split(failure_times_str, ",")
        stripped == [i \in 1..Len(pieces) |-> Strip(pieces[i])]
    IN SelectSeq(stripped, LAMBDA x : x # "")

\* float(x) lies strictly above the thousandths FloatOfText keeps: x has a
\* digit other than 0 after its third decimal.  The only such text sent is
\* "3.0000000000000004", the double that follows 3.0.
AboveThousandths(s) ==
    LET u == Unsigned(Strip(s))
        d == DotPos(u, 1)
    IN /\ d > 0
       /\ \E i \in (d + 4)..Len(u) : SubSeq(u, i, i) # "0"

\* float(x) as the list holds it for sorting and comparing: twice its
\* thousandths, plus one for a double just above them (x >= 0)
FloatKey(s) == 2 * FloatOfText(s) + (IF AboveThousandths(s) THEN 1 ELSE 0)

\* the thousandths of the doubles of a list, which is what the arithmetic
\* and the results keep of them
Thousandths(failure_times) ==
    [i \in 1..Len(failure_times) |-> failure_times[i] \div 2]

\* math.log(t) in thousandths, t in thousandths.  A double and the double
\* that follows it have the same thousandths and so the same logarithm
\* here, as math.log(3.0) == math.log(3.0000000000000004) in the code.
Log(t) ==
    CASE t = 1000 -> 0
      [] t = 2000 -> 693
      [] t = 3000 -> 1099
      [] t = 4000 -> 1386
      [] t = 5000 -> 1609
      [] t = 6000 -> 1792
      [] t = 7000 -> 1946
      [] t = 8000 -> 2079
      [] t = 9000 -> 2197
      [] t = 10000 -> 2303
      [] t = 100000 -> 4605
      [] t = 250000 -> 5521
      [] t = 480000 -> 6174
      [] t = 750000 -> 6620
      [] t = 1200000 -> 7090
      [] t = 1800000 -> 7496
      [] t = 8760000 -> 9078

RECURSIVE Sum(_)
Sum(list) == IF Len(list) = 0 THEN 0 ELSE Head(list) + Sum(Tail(list))

\* the first k decimals of r / c, for 0 <= r < c
RECURSIVE FracDigits(_, _, _)
FracDigits(r, c, k) ==
    IF k = 0 THEN 0
    ELSE LET d == (r * 10) \div c
             rest == FracDigits((r * 10) % c, c, k - 1)
         IN d * (IF k = 3 THEN 100 ELSE IF k = 2 THEN 10 ELSE 1) + rest

\* a / c in thousandths, for c > 0
DivMilli(a, c) ==
    LET m == IF a < 0 THEN -a ELSE a
        q == (m \div c) * 1000 + FracDigits(m % c, c, 3)
    IN IF a < 0 THEN -q ELSE q

\* n * sum_xx - sum_x * sum_x, the denominator of the slope
\* (duanemodel.py 149-156), for the logarithms ln_times
RegressionDenominator(ln_times) ==
    Len(ln_times) * Sum([i \in 1..Len(ln_times) |-> ln_times[i] * ln_times[i]])
    - Sum(ln_times) * Sum(ln_times)

\* fault injection for C10: the 0.8 threshold compared with >= instead of >
_interpret_growth_rate_Ge(beta) ==
    IF beta > 1000000 THEN "Reliability is deteriorating (beta > 1)"
    ELSE IF beta = 1000000 THEN "No reliability growth (beta = 1, constant failure rate)"
    ELSE IF beta >= 800000 THEN "Slow reliability growth (beta > 0.8)"
    ELSE IF beta > 500000 THEN "Moderate reliability growth (0.5 < beta <= 0.8)"
    ELSE IF beta > 200000 THEN "Good reliability growth (0.2 < beta <= 0.5)"
    ELSE "Excellent reliability growth (beta <= 0.2)"

\* DuaneModelCalculator._interpret_growth_rate(beta), beta in millionths
_interpret_growth_rate(beta) ==
    IF beta > 1000000 THEN "Reliability is deteriorating (beta > 1)"
    ELSE IF beta = 1000000 THEN "No reliability growth (beta = 1, constant failure rate)"
    ELSE IF beta > 800000 THEN "Slow reliability growth (beta > 0.8)"
    ELSE IF beta > 500000 THEN "Moderate reliability growth (0.5 < beta <= 0.8)"
    ELSE IF beta > 200000 THEN "Good reliability growth (0.2 < beta <= 0.5)"
    ELSE "Excellent reliability growth (beta <= 0.2)"

\* a finite float whose value is not modelled
Finite == [t |-> "float", s |-> "finite", n |-> 0]

\* DuaneModelCalculator._calculate_time_to_double_mtbf(beta, current_time):
\* infinite unless 0 < beta < 1 (2 ** (1 / beta) overflows only for a
\* beta below 1/1024, which is 0 at the model's resolution)
_calculate_time_to_double_mtbf(beta, current_time) ==
    IF beta <= 0 \/ beta >= 1000000 THEN PyInf ELSE Finite

\* fault injection for C17: the test duration is always the last failure
\* time
TestDuration_LastFailure(failure_times, total_test_time) ==
    failure_times[Len(failure_times)]

\* test_duration (duanemodel.py 142): the total test time if provided,
\* otherwise the last failure time
TestDuration(failure_times, total_test_time) ==
    IF total_test_time.t # "none" THEN total_test_time.n
    ELSE failure_times[Len(failure_times)]

\* DuaneModelCalculator._calculate_duane_model(failure_times, total_test_time):
\* failure_times in thousandths, ascending and distinct
_calculate_duane_model(failure_times, total_test_time) ==
    LET n_failures == Len(failure_times)
        failure_numbers == [i \in 1..n_failures |-> i]
        test_duration == TestDuration(failure_times, total_test_time)
    IN
    IF \E i \in 1..n_failures : failure_times[i] <= 0
    THEN Raises("ValueError", "math domain error")
    ELSE
    LET ln_times == [i \in 1..n_failures |-> Log(failure_times[i])]
        ln_mtbf == [i \in 1..n_failures |-> Log(failure_times[i]) - Log(1000 * i)]
        n == n_failures
        sum_x == Sum(ln_times)
        sum_y == Sum(ln_mtbf)
        sum_xy == Sum([i \in 1..n |-> ln_times[i] * ln_mtbf[i]])
        denominator == RegressionDenominator(ln_times)
    IN
    IF denominator = 0 THEN Raises("ZeroDivisionError", "float division by zero")
    ELSE
    LET beta == DivMilli(n * sum_xy - sum_x * sum_y, denominator)
        ln_alpha == DivMilli(sum_y * 1000 - beta * sum_x, 1000 * n)
    IN Returns(
         [parameters |-> [beta |-> 1000 * beta, ln_alpha |-> ln_alpha],
          cumulative_data |-> [failure_times |-> failure_times,
                               failure_numbers |-> failure_numbers],
          fit_stats |-> [degrees_of_freedom |-> n - 2],
          test_duration |-> test_duration])

\* DuaneModelCalculator._predict_mtbf_at_time(time, parameters, confidence_level):
\* 0.0 ** beta is 0.0 for beta > 0 (and math.log(0.0) then raises
\* ValueError), 1.0 for beta = 0 and a ZeroDivisionError for beta < 0
_predict_mtbf_at_time(time, parameters, confidence_level) ==
    LET beta == parameters.beta IN
    IF time = 0 /\ beta < 0
    THEN Raises("ZeroDivisionError", "0.0 cannot be raised to a negative power")
    ELSE IF time = 0 /\ beta > 0
    THEN Raises("ValueError", "math domain error")
    ELSE Returns(
           [time |-> time,
            ln_mtbf |-> IF time = 0 THEN parameters.ln_alpha
                        ELSE parameters.ln_alpha + ((beta \div 1000) * Log(time)) \div 1000,
            mtbf_instantaneous |-> IF beta # 0 THEN Finite ELSE PyInf,
            confidence_interval |-> [level |-> confidence_level]])

\* the part of DuaneModelCalculator.calculate after the checks of the list
\* (duanemodel.py 80-120), failure_times in thousandths
DuaneAnalysis(failure_times, target_time, confidence_level, total_test_time) ==
    LET duane_results == _calculate_duane_model(failure_times, total_test_time) IN
    IF duane_results.exc # "" THEN duane_results
    ELSE
    LET d == duane_results.value
        wants_target == target_time.t # "none" /\ target_time.n > 0
        target_prediction ==
            _predict_mtbf_at_time(target_time.n, d.parameters, confidence_level)
        final_time == d.test_duration
        final_prediction == _predict_mtbf_at_time(final_time, d.parameters, confidence_level)
        beta == d.parameters.beta
    IN
    IF wants_target /\ target_prediction.exc # "" THEN target_prediction
    ELSE IF final_prediction.exc # "" THEN final_prediction
    ELSE Returns(
           "input_data" :> [failure_times |-> failure_times,
                            number_of_failures |-> Len(failure_times),
                            test_duration |-> d.test_duration,
                            confidence_level |-> confidence_level]
           @@ "duane_model_parameters" :> d.parameters
           @@ "cumulative_mtbf_data" :> d.cumulative_data
           @@ "model_fit_statistics" :> d.fit_stats
           @@ (IF wants_target THEN "target_prediction" :> target_prediction.value
               ELSE <<>>)
           @@ "final_prediction" :> final_prediction.value
           @@ "reliability_growth" :>
                [growth_rate_percent |-> (1000000 - beta) \div 10,
                 interpretation |-> _interpret_growth_rate(beta),
                 time_to_double_mtbf |-> _calculate_time_to_double_mtbf(beta, final_time)])

\* calculate once the list is parsed and sorted (duanemodel.py 71-120),
\* failure_times as FloatKey gives them
DuaneSorted(failure_times, target_time, confidence_level, total_test_time) ==
    IF Len(failure_times) < 2
    THEN Raises("ValueError",
                "At least 2 failure times are required for Duane model analysis")
    ELSE IF \E i \in 2..Len(failure_times) : failure_times[i] <= failure_times[i - 1]
    THEN Raises("ValueError", "Failure times must be in strictly ascending order")
    ELSE DuaneAnalysis(Thousandths(failure_times),
                       target_time, confidence_level, total_test_time)

\* calculate once the text is split into tokens (duanemodel.py 64-120)
DuaneParsed(tokens, target_time, confidence_level, total_test_time) ==
    IF \E i \in 1..Len(tokens) : ~IsFloatText(tokens[i])
    THEN Raises("ValueError", "Failure times must be numeric values separated by commas")
    ELSE DuaneSorted(Sort([i \in 1..Len(tokens) |-> FloatKey(tokens[i])]),
                     target_time, confidence_level, total_test_time)

\* calculate on its local variables (duanemodel.py 59-120)
DuaneLocals(failure_times_str, target_time, confidence_level, total_test_time) ==
    IF failure_times_str.t # "str"
    THEN Raises("AttributeError", "'float' object has no attribute 'split'")
    ELSE DuaneParsed(FailureTimeTokens(failure_times_str.s),
                     target_time, confidence_level, total_test_time)

\* calculate once validate_inputs has answered v (duanemodel.py 57-120)
DuaneValidated(v) ==
    IF v.exc # "" THEN v
    ELSE DuaneLocals(v.value["failure_times"],
                     Get(v.value, "target_time"),
                     IntOfText(v.value["confidence_level"].s),
                     Get(v.value, "total_test_time"))

\* DuaneModelCalculator.calculate(inputs)
DuaneCalculate(raw) == DuaneValidated(validate_inputs(DuaneFields, raw))

(***************************************************************************)
(* dummy1.py, dummy2.py, dummy3.py: calculate ignores its inputs and       *)
(* validates nothing                                                       *)
(***************************************************************************)
DummyCalculate(raw) ==
    Returns("status" :> "in_development"
            @@ "message" :> "This calculator is currently in development. Please check back for future updates.")

\* CALCULATOR_REGISTRY[calculator_id].calculate(inputs)
CalculatorCalculate(id, raw) ==
    CASE id = "mtbf" -> MTBFCalculate(raw)
      [] id = "duane_model" -> DuaneCalculate(raw)
      [] id = "test_sample_size" -> TestSampleSizeCalculate(raw)
      [] OTHER -> DummyCalculate(raw)

(***************************************************************************)
(* The raw inputs a caller may send.  Absent marks a key that is not in    *)
(* the mapping at all; the other candidates are JSON values.               *)
(***************************************************************************)
Absent == [t |-> "absent", s |-> "", n |-> 0]

\* the longest failure_times text enumerated, in comma-separated pieces
MaxTokens == 3

\* the pieces a failure_times text is built from
Tokens == {"", "1", " 2", "3 ", "3.0000000000000004", "0", "x"}

RECURSIVE TextsOf(_)
TextsOf(k) ==
    IF k = 1 THEN Tokens
    ELSE {t \o "," \o u : t \in TextsOf(k - 1), u \in Tokens}

FailureTimesTexts == UNION {TextsOf(k) : k \in 1..MaxTokens}

Candidates(id, name) ==
    CASE name = "failure_rate" ->
           {Absent, PyStr("abc"), PyFloat(-1), PyFloat(0), PyFloat(1), PyFloat(3),
            PyStr("0.5"), PyInf}
      [] name = "operating_hours" -> {Absent, PyStr(""), PyFloat(0), PyFloat(1000000)}
      [] name = "confidence_level" ->
           IF id = "duane_model"
           THEN {Absent, PyStr("95"), PyStr("85")}
           ELSE {Absent, None, PyStr("80"), PyStr("90"), PyStr("95"), PyStr("99"),
                 PyStr("85"), PyInt(95)}
      [] name = "num_failures" ->
           {Absent, PyInt(0), PyInt(2), PyInt(1001), PyStr("2"), PyFloat(2500)}
      [] name = "test_time" -> {Absent, PyFloat(0), PyFloat(100000)}
      [] name = "failure_times" ->
           {Absent, PyFloat(100000)} \cup {PyStr(t) : t \in FailureTimesTexts}
      [] name = "target_time" -> {Absent, PyFloat(0), PyFloat(5000)}
      [] name = "total_test_time" -> {Absent, PyFloat(0), PyFloat(6000)}
      [] name = "target_reliability" ->
           {Absent, PyFloat(50), PyFloat(100), PyFloat(950), PyFloat(999),
            PyFloat(1500), PyStr("0.95")}
      [] name = "test_type" ->
           {Absent, PyStr("success_run"), PyStr("time_terminated"),
            PyStr("failure_terminated"), PyStr("other")}
      [] name = "test_duration" -> {Absent, PyFloat(0), PyFloat(100000)}
      [] name = "target_mtbf" -> {Absent, PyFloat(0), PyFloat(100000)}
      [] name = "max_failures" ->
           {Absent, PyInt(0), PyInt(2), PyInt(3), PyInt(4), PyInt(100), PyInt(101),
            PyStr("abc")}
      [] name = "stress_level" -> {Absent, PyFloat(-1), PyFloat(1000)}
      [] name = "temperature" ->
           {Absent, PyFloat(-50001), PyFloat(-50000), PyFloat(200000), PyFloat(200001),
            PyStr("hot")}
      [] name = "burn_in_time" -> {Absent, PyFloat(-1), PyFloat(48000)}
      [] name = "cost_per_hour" -> {Absent, PyStr(""), PyFloat(2500)}
      [] name = "defect_rate" -> {Absent, PyFloat(100000), PyFloat(100001), PyStr("1.5")}
      [] name = "lifetime_data" -> {Absent, PyStr(""), PyStr("100, 200")}
      [] name = "distribution_type" -> {Absent, PyStr("Weibull"), PyStr("Normal")}
      [] name = "censoring_type" -> {Absent, PyStr("None"), None}
      [] name = "invalid_field" -> {Absent, PyStr("invalid_value")}

\* every mapping that gives each key one of its candidates
RECURSIVE Mappings(_, _)
Mappings(id, names) ==
    IF Len(names) = 0 THEN {<<>>}
    ELSE {IF v = Absent THEN m ELSE (Head(names) :> v) @@ m :
              v \in Candidates(id, Head(names)), m \in Mappings(id, Tail(names))}

NamesOf(fields) == [i \in 1..Len(fields) |-> fields[i].name]

RawInputs(id) == Mappings(id, Append(NamesOf(FieldsOf(id)), "invalid_field"))

(***************************************************************************)
(* __init__.py: get_calculator, list_calculators                           *)
(***************************************************************************)
get_calculator(id) ==
    IF IsRegistered(id) THEN Returns(id)
    ELSE Raises("ValueError", "Unknown calculator: " \o id)

\* fault injection for C22: the infos listed in the reverse of the
\* registration order
list_calculators_Reversed ==
    [i \in 1..Len(registry) |-> InfoOf(registry[Len(registry) + 1 - i].key).id]

list_calculators == [i \in 1..Len(registry) |-> InfoOf(registry[i].key).id]

(***************************************************************************)
(* routes.py: the endpoints.  A request is served in one step (the         *)
(* handlers are coroutines without an await inside) and the response is    *)
(* then sent, which returns the service to "idle".                         *)
(***************************************************************************)
Pending == [exc |-> "pending", message |-> "", value |-> <<>>]

NoDetail == [error |-> "", message |-> ""]

\* sub in s
Contains(s, sub) == Find(s, sub) > 0

\* s.endswith(suffix)
EndsWith(s, suffix) ==
    /\ Len(s) >= Len(suffix)
    /\ SubSeq(s, Len(s) - Len(suffix) + 1, Len(s)) = suffix

\* the example value of one field; Absent when no branch assigns one
ExampleValue(field) ==
    IF field.default_value # None THEN field.default_value
    ELSE IF field.type = "float" THEN
        IF field.name = "failure_rate" THEN PyFloatE4(1)
        ELSE IF field.name = "activation_energy" THEN PyFloat(700)
        ELSE IF EndsWith(field.name, "temperature") \/ Contains(field.name, "temp")
        THEN (IF Contains(field.name, "use") THEN PyFloat(25000) ELSE PyFloat(125000))
        ELSE IF Contains(field.name, "reliability") THEN PyFloat(950)
        ELSE IF Contains(field.name, "time") \/ Contains(field.name, "duration")
        THEN PyFloat(8760000)
        ELSE IF field.name = "target_mtbf" THEN PyFloat(1000000)
        ELSE IF field.name = "test_duration" THEN PyFloat(100000)
        ELSE IF field.name = "target_time" THEN PyFloat(2000000)
        ELSE IF field.name = "total_test_time" THEN PyFloat(1500000)
        ELSE PyFloat(1000)
    ELSE IF field.type = "int" THEN
        IF field.name = "max_failures" THEN PyInt(0) ELSE PyInt(10)
    ELSE IF field.type = "select" /\ Len(field.options) > 0
    THEN PyStr(field.options[1])
    ELSE IF field.type = "bool" THEN [t |-> "bool", s |-> "", n |-> 1]
    ELSE IF field.type = "text" /\ field.name = "failure_times"
    THEN PyStr("100, 250, 480, 750, 1200, 1800")
    ELSE Absent

RECURSIVE ExampleInputs(_)
ExampleInputs(fields) ==
    IF Len(fields) = 0 THEN <<>>
    ELSE LET v == ExampleValue(Head(fields)) IN
         IF v = Absent THEN ExampleInputs(Tail(fields))
         ELSE (Head(fields).name :> v) @@ ExampleInputs(Tail(fields))

\* the ids a request path may carry
UnknownIds == {"nonexistent", ""}

RequestIds == RegisteredIds \cup UnknownIds

\* the inputs mappings a calculate request may carry
RequestInputs(id) ==
    IF IsRegistered(id)
    THEN Mappings(id, NamesOf(FieldsOf(id)))
             \cup {"invalid_field" :> PyStr("invalid_value")}
    ELSE {<<>>, "failure_rate" :> PyFloat(1)}

\* the endpoints of the router
Routes == {"get_available_calculators", "get_calculator_info", "calculate",
           "get_calculation_example"}

Init ==
    /\ registry = CALCULATOR_REGISTRY
    /\ NoTraffic
    /\ op = "idle"
    /\ route = ""
    /\ calculator_id = ""
    /\ inputs = <<>>
    /\ outcome = Pending
    /\ status = 0
    /\ detail = NoDetail

\* a request arrives and is routed to its handler
Receive ==
    /\ op = "idle"
    /\ op' = "received"
    /\ \E r \in Routes :
        /\ route' = r
        /\ \E id \in (IF r = "get_available_calculators" THEN {""} ELSE RequestIds) :
            /\ calculator_id' = id
            /\ inputs' \in (IF r = "calculate" THEN RequestInputs(id) ELSE {<<>>})
    /\ UNCHANGED <<outcome, status, detail>>
    /\ UNCHANGED <<registry, service>>

\* GET /
get_available_calculators ==
    /\ op = "received"
    /\ route = "get_available_calculators"
    /\ op' = "handled"
    /\ outcome' = Returns(list_calculators)
    /\ status' = 200
    /\ detail' = NoDetail
    /\ UNCHANGED <<route, calculator_id, inputs>>
    /\ UNCHANGED <<registry, service>>

\* GET /{calculator_id}/info
get_calculator_info ==
    /\ op = "received"
    /\ route = "get_calculator_info"
    /\ op' = "handled"
    /\ LET calculator == get_calculator(calculator_id) IN
        /\ outcome' = IF calculator.exc = "" THEN Returns(InfoOf(calculator_id))
                      ELSE calculator
        /\ status' = IF calculator.exc = "" THEN 200 ELSE 404
        /\ detail' = IF calculator.exc = "" THEN NoDetail
                     ELSE [error |-> "", message |-> calculator.message]
    /\ UNCHANGED <<route, calculator_id, inputs>>
    /\ UNCHANGED <<registry, service>>

\* the try block of calculate (routes.py 38-39)
TryCalculate(id, request_inputs) ==
    IF IsRegistered(id) THEN CalculatorCalculate(id, request_inputs)
    ELSE get_calculator(id)

\* fault injection for C23: calculate as it would be if validation wrote
\* its converted values back into the caller's inputs mapping
calculate_InPlace ==
    /\ op = "received"
    /\ route = "calculate"
    /\ op' = "handled"
    /\ outcome' = TryCalculate(calculator_id, inputs)
    /\ inputs' = IF IsRegistered(calculator_id)
                    /\ validate_inputs(FieldsOf(calculator_id), inputs).exc = ""
                 THEN validate_inputs(FieldsOf(calculator_id), inputs).value
                 ELSE inputs
    /\ status' = IF outcome'.exc = "" THEN 200
                 ELSE IF outcome'.exc = "ValueError" THEN 400
                 ELSE 500
    /\ detail' = NoDetail
    /\ UNCHANGED <<route, calculator_id, registry, service>>

\* POST /calculate/{calculator_id}
calculate ==
    /\ op = "received"
    /\ route = "calculate"
    /\ op' = "handled"
    /\ outcome' = TryCalculate(calculator_id, inputs)
    /\ status' = IF outcome'.exc = "" THEN 200
                 ELSE IF outcome'.exc = "ValueError" THEN 400
                 ELSE 500
    /\ detail' = IF outcome'.exc = ""
                 THEN [error |-> "", message |-> "Calculation completed successfully"]
                 ELSE IF outcome'.exc = "ValueError"
                 THEN [error |-> "Invalid input", message |-> outcome'.message]
                 ELSE [error |-> "Calculation failed",
                       message |-> "An error occurred during calculation"]
    /\ UNCHANGED <<route, calculator_id, inputs>>
    /\ UNCHANGED <<registry, service>>

\* GET /calculate/{calculator_id}/example
get_calculation_example ==
    /\ op = "received"
    /\ route = "get_calculation_example"
    /\ op' = "handled"
    /\ inputs' = IF IsRegistered(calculator_id)
                 THEN ExampleInputs(FieldsOf(calculator_id)) ELSE <<>>
    /\ outcome' = TryCalculate(calculator_id, inputs')
    /\ status' = IF outcome'.exc = "" THEN 200
                 ELSE IF outcome'.exc = "ValueError" THEN 404
                 ELSE 500
    /\ detail' = IF outcome'.exc = "" THEN NoDetail
                 ELSE IF outcome'.exc = "ValueError"
                 THEN [error |-> "", message |-> outcome'.message]
                 ELSE [error |-> "",
                       message |-> "Failed to generate example for " \o calculator_id]
    /\ UNCHANGED <<route, calculator_id>>
    /\ UNCHANGED <<registry, service>>

\* the response is sent; the service waits for the next request
Respond ==
    /\ op = "handled"
    /\ op' = "idle"
    /\ route' = ""
    /\ calculator_id' = ""
    /\ inputs' = <<>>
    /\ outcome' = Pending
    /\ status' = 0
    /\ detail' = NoDetail
    /\ UNCHANGED <<registry, service>>

Next ==
    \/ Receive
    \/ get_available_calculators
    \/ get_calculator_info
    \/ calculate
    \/ get_calculation_example
    \/ Respond

Spec == Init /\ [][Next]_vars

(***************************************************************************)
(* SpecValidate: validate_inputs applied to every calculator's fields      *)
(***************************************************************************)
InitValidate ==
    /\ registry = CALCULATOR_REGISTRY
    /\ NoTraffic
    /\ op = "start"
    /\ route = ""
    /\ calculator_id \in RegisteredIds
    /\ inputs \in RawInputs(calculator_id)
    /\ outcome = Pending
    /\ status = 0
    /\ detail = NoDetail

ValidateInputs ==
    /\ op = "start"
    /\ op' = "validate_inputs"
    /\ outcome' = validate_inputs(FieldsOf(calculator_id), inputs)
    /\ UNCHANGED <<route, calculator_id, inputs, status, detail>>
    /\ UNCHANGED <<registry, service>>

NextValidate == ValidateInputs

SpecValidate == InitValidate /\ [][NextValidate]_vars

(***************************************************************************)
(* Claims about validate_inputs (checked under SpecValidate)               *)
(***************************************************************************)
\* the raw value of a declared field violates the field's constraints:
\* missing required, bad type, not in options, out of range
Violates(field, v) ==
    IF IsEmpty(v) THEN field.required
    ELSE CASE field.type = "float" ->
                \/ FloatRaises(v)
                \/ (field.min_value.t # "none" /\ Below(ToFloat(v), field.min_value.n))
                \/ (field.max_value.t # "none" /\ Above(ToFloat(v), field.max_value.n))
           [] field.type = "int" ->
                \/ IntRaises(v)
                \/ (field.min_value.t # "none" /\ Milli(ToInt(v)) < field.min_value.n)
                \/ (field.max_value.t # "none" /\ Milli(ToInt(v)) > field.max_value.n)
           [] field.type = "select" -> ~InOptions(v, field.options)
           [] OTHER -> FALSE

\* the violating fields of the current call, in declaration order
ViolatingFields ==
    SelectSeq(FieldsOf(calculator_id), LAMBDA f : Violates(f, Get(inputs, f.name)))

Handled(r) == op = "handled" /\ route = r

\* a test_duration / target_mtbf that is missing or zero
MissingOrZero(v) == v.t = "none" \/ (v.t \in {"float", "int"} /\ v.n = 0)

\* a calculate request to test_sample_size has been served
SampleSizeServed == Handled("calculate") /\ calculator_id = "test_sample_size"

\* C3: a time_terminated test_sample_size calculation whose test_duration
\* or target_mtbf is missing or zero is rejected with an error: it returns
\* no result.
C3_TimeTerminatedNeedsDurationAndMtbf ==
    (/\ SampleSizeServed
     /\ Get(inputs, "test_type") = PyStr("time_terminated")
     /\ \/ MissingOrZero(Get(inputs, "test_duration"))
        \/ MissingOrZero(Get(inputs, "target_mtbf")))
    => outcome.exc # ""

\* C3, the diverging state: such a request is answered 200 with a result
\* that has no required_sample_size
C3_Witness ==
    /\ SampleSizeServed
    /\ Get(inputs, "test_type") = PyStr("time_terminated")
    /\ "test_duration" \notin DOMAIN inputs
    /\ Get(inputs, "target_mtbf") = PyFloat(100000)
    /\ outcome.exc = ""
    /\ status = 200
    /\ "required_sample_size" \notin DOMAIN outcome.value

\* the request passes validation with a max_failures of 4..100 and reaches
\* the chi-square table
TableMiss ==
    /\ SampleSizeServed
    /\ LET v == validate_inputs(TestSampleSizeFields, inputs) IN
       /\ v.exc = ""
       /\ "max_failures" \in DOMAIN v.value
       /\ v.value["max_failures"].n \in 4..100
       /\ \/ /\ v.value["test_type"] = PyStr("failure_terminated")
             /\ Truthy(Get(v.value, "target_mtbf"))
          \/ /\ v.value["test_type"] = PyStr("time_terminated")
             /\ Truthy(Get(v.value, "target_mtbf"))
             /\ Truthy(Get(v.value, "test_duration"))

\* C4: a max_failures that is valid (0..100) but has no chi-square table
\* entry fails with an "unsupported" error answered as a client error,
\* never as a generic internal error.
C4_TableMissIsUnsupportedError ==
    TableMiss =>
        /\ outcome.exc # ""
        /\ status \in 400..499
        /\ Contains(detail.message, "nsupported")

\* C4, the diverging state: the table miss is a KeyError, answered 500
\* with the generic message
C4_Witness ==
    /\ TableMiss
    /\ outcome.exc = "KeyError"
    /\ status = 500
    /\ detail.message = "An error occurred during calculation"

\* C5: for a calculate request to a registered calculator the status is
\* 200 exactly when the calculation succeeded, and a failed calculation is
\* answered with a 4xx status and a non-empty message, never 5xx.
C5_StatusFollowsOutcome ==
    (Handled("calculate") /\ IsRegistered(calculator_id)) =>
        /\ status = 200 <=> outcome.exc = ""
        /\ outcome.exc # "" => (status \in 400..499 /\ detail.message # "")

\* C5, a diverging state other than the table miss: failure_times sent as
\* a number is an AttributeError, answered 500
C5_Witness ==
    /\ Handled("calculate")
    /\ calculator_id = "duane_model"
    /\ outcome.exc = "AttributeError"
    /\ status = 500

\* C6: info, calculate and example answer 404 exactly when the id is not
\* in the registry.
C6_NotFoundIffUnknownId ==
    (op = "handled" /\ route # "get_available_calculators") =>
        (status = 404 <=> ~IsRegistered(calculator_id))

\* C6, the diverging state: calculate answers an unknown id with 400
C6_Witness ==
    /\ Handled("calculate")
    /\ ~IsRegistered(calculator_id)
    /\ outcome.message = "Unknown calculator: " \o calculator_id
    /\ status = 400

\* C7: an MTBF calculation with failure_rate <= 0 fails with an error and
\* returns no result.
C7_NonPositiveRateFails ==
    (/\ Handled("calculate")
     /\ calculator_id = "mtbf"
     /\ Get(inputs, "failure_rate").t = "float"
     /\ Get(inputs, "failure_rate").n <= 0)
    => outcome.exc # ""

\* C7, the diverging state: failure_rate 0 returns an infinite mtbf_hours
C7_Witness ==
    /\ Handled("calculate")
    /\ calculator_id = "mtbf"
    /\ Get(inputs, "failure_rate") = PyFloat(0)
    /\ status = 200
    /\ outcome.value["mtbf_hours"] = PyInf

(***************************************************************************)
(* Claims about the Duane calculator's failure_times (checked under Spec)  *)
(***************************************************************************)
\* the pieces of a failure_times text that are not blank, trimmed
Pieces(text) ==
    LET raw == Split(text, ",") IN
    SelectSeq([i \in 1..Len(raw) |-> Strip(raw[i])], LAMBDA x : x # "")

\* a calculate request to duane_model carrying a text, its other inputs
\* valid
DuaneServed ==
    /\ Handled("calculate")
    /\ calculator_id = "duane_model"
    /\ Get(inputs, "failure_times").t = "str"
    /\ validate_inputs(DuaneFields, ("failure_times" :> PyStr("1,2")) @@ inputs).exc = ""

FailureTimesText == inputs["failure_times"].s

AllNumeric(text) == \A i \in 1..Len(Pieces(text)) : IsFloatText(Pieces(text)[i])

\* the numbers of a text whose pieces are all numeric, in thousandths
Values(text) == [i \in 1..Len(Pieces(text)) |-> FloatOfText(Pieces(text)[i])]

\* the same numbers as the doubles they are parsed to: two pieces give the
\* same entry exactly when they are the same double
Doubles(text) == [i \in 1..Len(Pieces(text)) |-> FloatKey(Pieces(text)[i])]

Occurrences(list, x) == Cardinality({i \in 1..Len(list) : list[i] = x})

\* the ascending arrangement of a list
Ascending(list) ==
    CHOOSE a \in [1..Len(list) -> {list[i] : i \in 1..Len(list)}] :
        /\ \A i \in 1..Len(list) : Occurrences(a, list[i]) = Occurrences(list, list[i])
        /\ \A i \in 2..Len(list) : a[i - 1] <= a[i]

HasDuplicate(list) == \E i, j \in 1..Len(list) : i # j /\ list[i] = list[j]

\* the pieces of a text arranged by ascending number
AscendingPieces(text) ==
    CHOOSE a \in [1..Len(Pieces(text)) -> {Pieces(text)[i] : i \in 1..Len(Pieces(text))}] :
        /\ \A i \in 1..Len(a) :
              Occurrences(a, Pieces(text)[i]) = Occurrences(Pieces(text), Pieces(text)[i])
        /\ \A i \in 2..Len(a) : FloatKey(a[i - 1]) <= FloatKey(a[i])

\* what the calculator answers when the same request carries the list in
\* ascending order
AscendingOutcome ==
    CalculatorCalculate("duane_model",
        ("failure_times" :> PyStr(Join(AscendingPieces(FailureTimesText), ",")))
            @@ inputs)

\* the request carries at least 2 numbers
ListServed ==
    /\ DuaneServed
    /\ AllNumeric(FailureTimesText)
    /\ Len(Values(FailureTimesText)) >= 2

OrderError == "Failure times must be in strictly ascending order"

MinimumError == "At least 2 failure times are required for Duane model analysis"

NumericError == "Failure times must be numeric values separated by commas"

\* C9 as stated: a text with fewer than 2 numeric values after splitting,
\* trimming and discarding empty tokens fails with the error that mentions
\* the minimum of 2; a text with a non-numeric token fails with an error.
C9_TooFewMentionsMinimum ==
    DuaneServed =>
        /\ (AllNumeric(FailureTimesText) /\ Len(Pieces(FailureTimesText)) < 2) =>
             (outcome.exc # "" /\ Contains(outcome.message, "2 failure times"))
        /\ ~AllNumeric(FailureTimesText) => outcome.exc # ""

\* C9 amended: a non-empty text with fewer than 2 numeric values (and no
\* other token) fails with the error that mentions the minimum of 2; the
\* empty text fails with "Failure Times is required"; a text with a
\* non-numeric token fails with the numeric-format error; no result is
\* returned in any of these cases.
C9_TooFewOrNonNumericFails ==
    DuaneServed =>
        /\ (/\ FailureTimesText # ""
            /\ AllNumeric(FailureTimesText)
            /\ Len(Pieces(FailureTimesText)) < 2) =>
             (outcome.exc = "ValueError" /\ outcome.message = MinimumError)
        /\ FailureTimesText = "" =>
             (outcome.exc = "ValueError" /\ outcome.message = "Failure Times is required")
        /\ ~AllNumeric(FailureTimesText) =>
             (outcome.exc = "ValueError" /\ outcome.message = NumericError)

\* C9 witness: a text holding one number and an empty piece is refused
\* with the minimum-of-2 error
C9_Witness ==
    /\ DuaneServed
    /\ FailureTimesText = "1,"
    /\ outcome.exc = "ValueError"
    /\ outcome.message = MinimumError
    /\ status = 400

(***************************************************************************)
(* SpecInterp: _interpret_growth_rate applied to values of beta around     *)
(* every threshold and far from them (beta in millionths)                  *)
(***************************************************************************)
\* how far around each threshold beta is drawn
BetaWindow == 12

Thresholds == {0, 200000, 500000, 800000, 1000000}

BetaValues ==
    {t + d : t \in Thresholds, d \in (-BetaWindow)..BetaWindow}
        \cup {-2000000, 2000000}

InitInterp ==
    /\ registry = CALCULATOR_REGISTRY
    /\ NoTraffic
    /\ op = "start"
    /\ route = ""
    /\ calculator_id = "duane_model"
    /\ inputs \in BetaValues
    /\ outcome = Pending
    /\ status = 0
    /\ detail = NoDetail

Interpret ==
    /\ op = "start"
    /\ op' = "_interpret_growth_rate"
    /\ outcome' = Returns(_interpret_growth_rate(inputs))
    /\ UNCHANGED <<route, calculator_id, inputs, status, detail>>
    /\ UNCHANGED <<registry, service>>

NextInterp == Interpret

SpecInterp == InitInterp /\ [][NextInterp]_vars

\* the six buckets: the condition on beta and the interpretation
Buckets(beta) ==
    {[in |-> beta > 1000000, text |-> "Reliability is deteriorating (beta > 1)"],
     [in |-> beta = 1000000,
      text |-> "No reliability growth (beta = 1, constant failure rate)"],
     [in |-> 800000 < beta /\ beta < 1000000,
      text |-> "Slow reliability growth (beta > 0.8)"],
     [in |-> 500000 < beta /\ beta <= 800000,
      text |-> "Moderate reliability growth (0.5 < beta <= 0.8)"],
     [in |-> 200000 < beta /\ beta <= 500000,
      text |-> "Good reliability growth (0.2 < beta <= 0.5)"],
     [in |-> beta <= 200000, text |-> "Excellent reliability growth (beta <= 0.2)"]}

\* C10: the interpretation is a total function of beta: every beta lies in
\* exactly one of the six buckets and is given that bucket's text.
C10_ExactlyOneBucket ==
    op = "_interpret_growth_rate" =>
        /\ Cardinality({b \in Buckets(inputs) : b.in}) = 1
        /\ \A b \in Buckets(inputs) : b.in <=> outcome.value = b.text

\* C10 witness: beta = 0.8 exactly is interpreted as moderate growth
C10_Witness ==
    /\ op = "_interpret_growth_rate"
    /\ inputs = 800000
    /\ outcome.value = "Moderate reliability growth (0.5 < beta <= 0.8)"

(***************************************************************************)
(* Claims about select fields (checked under Spec)                         *)
(***************************************************************************)
\* the calculators whose calculate starts with validate_inputs; the three
\* "Future Development" calculators return their notice without it
ValidatingIds == {"mtbf", "duane_model", "test_sample_size"}

\* the value is given (not null, not "") and is none of the options
OutsideOptions(v, options) ==
    /\ ~IsEmpty(v)
    /\ \A k \in 1..Len(options) : v # PyStr(options[k])

\* the select fields of the served calculator given a value outside
\* their options
BadSelects ==
    SelectSeq(FieldsOf(calculator_id),
              LAMBDA f : f.type = "select"
                         /\ OutsideOptions(Get(inputs, f.name), f.options))

\* the error raised names the options of every select field in BadSelects
NamesAllowedOptions ==
    /\ outcome.exc = "ValueError"
    /\ \A i \in 1..Len(BadSelects) :
         Contains(outcome.message,
                  BadSelects[i].label \o " must be one of: "
                      \o Join(BadSelects[i].options, ", "))

OutsideReliabilityRange(v) ==
    v.t \in {"float", "int"} /\ (Milli(v) < 100 \/ Milli(v) > 999)

\* C12: whatever the test_type, a test_sample_size request whose
\* target_reliability lies outside [0.1, 0.999] is rejected by
\* validate_inputs: the ValueError of the validation, naming the bound, is
\* the outcome of calculate (answered 400) and no result is produced.
C12_ReliabilityOutOfRangeRejected ==
    (SampleSizeServed /\ OutsideReliabilityRange(Get(inputs, "target_reliability"))) =>
        /\ outcome.exc = "ValueError"
        /\ outcome.value = <<>>
        /\ outcome = validate_inputs(FieldsOf("test_sample_size"), inputs)
        /\ Contains(outcome.message,
                    IF Milli(inputs["target_reliability"]) < 100
                    THEN "Target Reliability must be >= 0.1"
                    ELSE "Target Reliability must be <= 0.999")
        /\ status = 400

\* C12 witness: 1.5 is refused for an otherwise valid failure_terminated
\* request
C12_Witness ==
    /\ SampleSizeServed
    /\ Get(inputs, "test_type") = PyStr("failure_terminated")
    /\ Get(inputs, "confidence_level") = PyStr("90")
    /\ Get(inputs, "target_mtbf") = PyFloat(100000)
    /\ Get(inputs, "target_reliability") = PyFloat(1500)
    /\ outcome = Raises("ValueError", "Target Reliability must be <= 0.999")
    /\ status = 400

(***************************************************************************)
(* Claims about optional fields (checked under SpecValidate)               *)
(***************************************************************************)
\* the optional fields of the calculator whose raw value is absent, null
\* or the empty string
EmptyOptionals ==
    SelectSeq(FieldsOf(calculator_id),
              LAMBDA f : ~f.required /\ IsEmpty(Get(inputs, f.name)))

\* C13: an optional field that is absent, null or "" in the raw input
\* records no error (no message of a raised ValueError is about it) and is
\* no key of the validated mapping returned: no default is put in its place.
C13_EmptyOptionalSkipped ==
    op = "validate_inputs" =>
        \A i \in 1..Len(EmptyOptionals) :
            /\ outcome.exc # "" =>
                 LET parts == Split(outcome.message, "; ") IN
                 \A k \in 1..Len(parts) :
                     ~StartsWith(parts[k], EmptyOptionals[i].label \o " ")
            /\ outcome.exc = "" => EmptyOptionals[i].name \notin DOMAIN outcome.value

\* C13 witness: MTBF inputs with operating_hours "" and num_failures and
\* test_time absent validate to a mapping of the two required fields alone
C13_Witness ==
    /\ op = "validate_inputs"
    /\ calculator_id = "mtbf"
    /\ Get(inputs, "operating_hours") = PyStr("")
    /\ Len(EmptyOptionals) = 3
    /\ outcome.exc = ""
    /\ DOMAIN outcome.value = {"failure_rate", "confidence_level"}

(***************************************************************************)
(* Claims about the MTBF calculator (checked under Spec)                   *)
(***************************************************************************)
\* a calculate request to mtbf has been served
MTBFServed == Handled("calculate") /\ calculator_id = "mtbf"

\* the inputs of the request are valid and failure_rate > 0
ValidWithPositiveRate ==
    /\ validate_inputs(MTBFFields, inputs).exc = ""
    /\ Above(validate_inputs(MTBFFields, inputs).value["failure_rate"], 0)

\* the raw inputs give num_failures and test_time, with test_time > 0
TestDataSupplied ==
    /\ ~IsEmpty(Get(inputs, "num_failures"))
    /\ ~IsEmpty(Get(inputs, "test_time"))
    /\ Milli(Get(inputs, "test_time")) > 0

\* C14: for every valid MTBF input with failure_rate > 0 the result holds
\* exactly one of precise_analysis and approximate_analysis: the exact
\* chi-square analysis when num_failures and test_time are both given with
\* test_time > 0, and otherwise the approximate one, whose note says that
\* about 10 observed failures are assumed.
C14_ExactlyOneAnalysis ==
    (MTBFServed /\ ValidWithPositiveRate) =>
        /\ outcome.exc = ""
        /\ ("precise_analysis" \in DOMAIN outcome.value)
               # ("approximate_analysis" \in DOMAIN outcome.value)
        /\ ("precise_analysis" \in DOMAIN outcome.value) <=> TestDataSupplied
        /\ "precise_analysis" \in DOMAIN outcome.value =>
               outcome.value["precise_analysis"].mtbf_confidence_interval.method
                   = "Chi-square exact"
        /\ "approximate_analysis" \in DOMAIN outcome.value =>
               Contains(outcome.value["approximate_analysis"].note,
                        "assuming ~10 failures observed")

\* C14 failing case: failure_rate is infinite (it passes validation, which
\* sets no max_value) and no test data is given; the approximate branch
\* divides by an mtbf_upper of 0.0 and the request is answered 500
C14_Witness ==
    /\ MTBFServed
    /\ ValidWithPositiveRate
    /\ Get(inputs, "failure_rate") = PyInf
    /\ ~TestDataSupplied
    /\ outcome = Raises("ZeroDivisionError", "float division by zero")
    /\ status = 500

\* the validated inputs hold num_failures = 0 and a test_time > 0
ZeroFailuresTested ==
    /\ validate_inputs(MTBFFields, inputs).exc = ""
    /\ "num_failures" \in DOMAIN validate_inputs(MTBFFields, inputs).value
    /\ validate_inputs(MTBFFields, inputs).value["num_failures"].n = 0
    /\ "test_time" \in DOMAIN validate_inputs(MTBFFields, inputs).value
    /\ Above(validate_inputs(MTBFFields, inputs).value["test_time"], 0)

\* C15: an MTBF calculation with num_failures = 0 and a test_time > 0
\* takes the exact-interval branch: the upper MTBF bound is infinite and
\* reported as the infinity sign, the lower failure-rate bound is 0, the
\* observed MTBF is the infinity sign and the observed failure rate is 0.
C15_ZeroFailuresInfiniteUpperBound ==
    (MTBFServed /\ ZeroFailuresTested) =>
        /\ outcome.exc = ""
        /\ "precise_analysis" \in DOMAIN outcome.value
        /\ "approximate_analysis" \notin DOMAIN outcome.value
        /\ LET precise == outcome.value["precise_analysis"] IN
           /\ precise.mtbf_confidence_interval.method = "Chi-square exact"
           /\ precise.mtbf_confidence_interval.upper = PyStr(InfinitySign)
           /\ precise.failure_rate_confidence_interval.lower = 0
           /\ precise.test_data.observed_mtbf = PyStr(InfinitySign)
           /\ precise.test_data.observed_failure_rate = 0

\* C15 witness: 0 failures in 100 hours at 95 percent: the MTBF interval is
\* [2 * 100 / chi2.ppf(0.975, 2), infinity)
C15_Witness ==
    /\ MTBFServed
    /\ ZeroFailuresTested
    /\ Get(inputs, "confidence_level") = PyStr("95")
    /\ Get(inputs, "test_time") = PyFloat(100000)
    /\ outcome.exc = ""
    /\ outcome.value["precise_analysis"].mtbf_confidence_interval
           = [lower |-> 27110, upper |-> PyStr(InfinitySign), method |-> "Chi-square exact"]

\* the mtbf calculator has answered a calculate or an example request
MTBFAnswered ==
    /\ op = "handled"
    /\ route \in {"calculate", "get_calculation_example"}
    /\ calculator_id = "mtbf"

\* a finite failure_rate is Numerator / Denominator
Numerator(failure_rate) == failure_rate.n

Denominator(failure_rate) ==
    IF failure_rate.t = "int" THEN 1
    ELSE IF failure_rate.s = "e-4" THEN 10000 ELSE 1000

Abs(k) == IF k < 0 THEN -k ELSE k

\* hours (in thousandths) times failure_rate, less 1, scaled by the
\* denominator of the rate: zero when hours is 1 / failure_rate
ReciprocalError(hours, failure_rate) ==
    hours * Numerator(failure_rate) - 1000 * Denominator(failure_rate)

Largest(list) ==
    CHOOSE x \in {list[i] : i \in 1..Len(list)} : \A i \in 1..Len(list) : list[i] <= x

\* the time the claim gives for the final prediction
ExpectedTestDuration ==
    IF ~IsEmpty(Get(inputs, "total_test_time")) THEN Milli(inputs["total_test_time"])
    ELSE Largest(Values(FailureTimesText))

\* target_time is given and > 0
TargetSupplied ==
    ~IsEmpty(Get(inputs, "target_time")) /\ Above(inputs["target_time"], 0)

\* C17: in every successful Duane result final_prediction is the model's
\* prediction at test_duration, which is total_test_time when that input
\* is given and the last (largest) failure time otherwise;
\* target_prediction is present exactly when target_time is given and
\* > 0, and is then the prediction at target_time.
C17_PredictionTimes ==
    (DuaneServed /\ outcome.exc = "") =>
        LET results == outcome.value
            parameters == results["duane_model_parameters"]
            confidence_level == results["input_data"].confidence_level
        IN /\ results["input_data"].test_duration = ExpectedTestDuration
           /\ results["final_prediction"].time = ExpectedTestDuration
           /\ results["final_prediction"]
                  = _predict_mtbf_at_time(ExpectedTestDuration, parameters,
                                          confidence_level).value
           /\ "target_prediction" \in DOMAIN results <=> TargetSupplied
           /\ TargetSupplied =>
                  /\ results["target_prediction"].time = Milli(inputs["target_time"])
                  /\ results["target_prediction"]
                         = _predict_mtbf_at_time(Milli(inputs["target_time"]), parameters,
                                                 confidence_level).value

\* C17 witness: failure times 3, 1, 2 with total_test_time 6 and
\* target_time 5: the final prediction is at 6 and the target one at 5
C17_Witness ==
    /\ DuaneServed
    /\ outcome.exc = ""
    /\ Values(FailureTimesText) = <<3000, 1000, 2000>>
    /\ Get(inputs, "total_test_time") = PyFloat(6000)
    /\ Get(inputs, "target_time") = PyFloat(5000)
    /\ outcome.value["final_prediction"].time = 6000
    /\ outcome.value["target_prediction"].time = 5000

\* the regression has divided by a denominator of zero
RegressionDividedByZero == outcome = Raises("ZeroDivisionError", "float division by zero")

\* C18: a Duane calculation never reaches the regression with a zero
\* denominator n * Sxx - (Sx)^2: a list whose failure times are not
\* pairwise distinct fails with the strictly-ascending error and no
\* result, and no calculation ends in the regression's division by zero.
C18_DenominatorNeverZero ==
    ListServed =>
        /\ HasDuplicate(Doubles(FailureTimesText)) => outcome = Raises("ValueError", OrderError)
        /\ ~RegressionDividedByZero

\* C18 failing case: 3 and the double that follows it are distinct failure
\* times with the same logarithm; they pass the strictly-ascending check,
\* the denominator is 0 and the request is answered 500
C18_Witness ==
    /\ ListServed
    /\ Pieces(FailureTimesText) = <<"3", "3.0000000000000004">>
    /\ ~HasDuplicate(Doubles(FailureTimesText))
    /\ RegressionDenominator(<<Log(Values(FailureTimesText)[1]), Log(Values(FailureTimesText)[2])>>) = 0
    /\ RegressionDividedByZero
    /\ status = 500

(***************************************************************************)
(* Claims about the test_sample_size results (checked under Spec)          *)
(***************************************************************************)
\* a success_run calculation has returned a result
SuccessRunReturned ==
    /\ SampleSizeServed
    /\ outcome.exc = ""
    /\ outcome.value["test_type"] = "success_run"

\* the alternative_scenarios of the result (none when the key is absent)
Scenarios ==
    IF "alternative_scenarios" \in DOMAIN outcome.value
    THEN outcome.value["alternative_scenarios"] ELSE <<>>

ScenarioLevels == {Scenarios[i].confidence_level : i \in 1..Len(Scenarios)}

\* C19 as stated: whichever of the levels 80, 90, 95, 99 is chosen, a
\* success_run result lists comparison sample sizes at two other standard
\* confidence levels, none of them the chosen one.
C19_TwoOtherLevels ==
    SuccessRunReturned =>
        /\ Len(Scenarios) = 2
        /\ Cardinality(ScenarioLevels) = 2
        /\ ScenarioLevels \subseteq {80, 90, 95, 99} \ {outcome.value["confidence_level"]}

\* C19 amended: a success_run result lists one comparison per level of
\* 80 and 90 that is not the chosen level, in that order: two when 95 or
\* 99 is chosen, one when 80 or 90 is chosen; each gives the sample size
\* at its level and the reduction from required_sample_size.
C19_LowerLevelsOtherThanChosen ==
    SuccessRunReturned =>
        /\ ScenarioLevels = {80, 90} \ {outcome.value["confidence_level"]}
        /\ Len(Scenarios) = Cardinality(ScenarioLevels)
        /\ Len(Scenarios) = 2 => Scenarios[1].confidence_level = 80
        /\ \A i \in 1..Len(Scenarios) :
             /\ Scenarios[i].sample_size
                    = SuccessRunSampleSize(Scenarios[i].confidence_level,
                                           outcome.value["target_reliability"])
             /\ Scenarios[i].reduction
                    = outcome.value["required_sample_size"] - Scenarios[i].sample_size

\* C19 witness: at confidence 90 and reliability 0.95 (45 units) the one
\* comparison is at 80 (32 units)
C19_Witness ==
    /\ SuccessRunReturned
    /\ Get(inputs, "confidence_level") = PyStr("90")
    /\ outcome.value["target_reliability"] = 950
    /\ outcome.value["required_sample_size"] = 45
    /\ Scenarios = << [confidence_level |-> 80, sample_size |-> 32, reduction |-> 13] >>

\* a valid failure_terminated request that gives target_mtbf, its
\* max_failures (0 when absent) a key of the chi-square table
FailureTerminatedWithMtbf ==
    /\ SampleSizeServed
    /\ validate_inputs(TestSampleSizeFields, inputs).exc = ""
    /\ Get(inputs, "test_type") = PyStr("failure_terminated")
    /\ ~IsEmpty(Get(inputs, "target_mtbf"))
    /\ IsEmpty(Get(inputs, "max_failures")) \/ Milli(inputs["max_failures"]) \in {0, 1000, 2000, 3000}

\* C20: a failure_terminated calculation with target_mtbf given and
\* max_failures in the chi-square table returns estimated_sample_size,
\* 3 * max_failures when max_failures > 0 and 10 when it is 0 or absent,
\* and no required_sample_size.
C20_FailureTerminatedEstimate ==
    FailureTerminatedWithMtbf =>
        /\ outcome.exc = ""
        /\ "estimated_sample_size" \in DOMAIN outcome.value
        /\ outcome.value["estimated_sample_size"]
               = (IF IsEmpty(Get(inputs, "max_failures")) \/ Milli(inputs["max_failures"]) = 0
                  THEN 10 ELSE 3 * (Milli(inputs["max_failures"]) \div 1000))
        /\ "required_sample_size" \notin DOMAIN outcome.value

\* C20 failing case: target_mtbf is given as 0.0, which validation accepts;
\* the failure_terminated branch is skipped and the result, answered 200,
\* has no estimated_sample_size
C20_Witness ==
    /\ FailureTerminatedWithMtbf
    /\ Get(inputs, "target_mtbf") = PyFloat(0)
    /\ outcome.exc = ""
    /\ "estimated_sample_size" \notin DOMAIN outcome.value
    /\ "required_sample_size" \notin DOMAIN outcome.value
    /\ status = 200

\* a test_sample_size calculation has returned a result
SampleSizeReturned == SampleSizeServed /\ outcome.exc = ""

HasKey(key) == key \in DOMAIN outcome.value

\* C30: in every successful test_sample_size result exactly one test-type
\* branch has contributed: the result holds required_sample_size or
\* estimated_sample_size and never both, required_sample_size only for
\* success_run and time_terminated, estimated_sample_size only for
\* failure_terminated, and total_test_hours and test_cost_factor only
\* together with required_sample_size and a non-zero test_duration.
C30_ExactlyOneBranch ==
    SampleSizeReturned =>
        /\ HasKey("required_sample_size") # HasKey("estimated_sample_size")
        /\ HasKey("required_sample_size") =>
              outcome.value["test_type"] \in {"success_run", "time_terminated"}
        /\ HasKey("estimated_sample_size") =>
              outcome.value["test_type"] = "failure_terminated"
        /\ (HasKey("total_test_hours") \/ HasKey("test_cost_factor")) =>
              /\ HasKey("required_sample_size")
              /\ ~MissingOrZero(Get(inputs, "test_duration"))

\* C30 failing case: a time_terminated request whose test_duration is 0.0
\* is answered 200 with a result to which no branch has contributed
C30_Witness ==
    /\ SampleSizeReturned
    /\ status = 200
    /\ outcome.value["test_type"] = "time_terminated"
    /\ Get(inputs, "test_duration") = PyFloat(0)
    /\ ~HasKey("required_sample_size")
    /\ ~HasKey("estimated_sample_size")
    /\ ~HasKey("total_test_hours")

(***************************************************************************)
(* Claims about the registry (checked under Spec)                          *)
(***************************************************************************)
\* the six calculators in the order of their registration
SixCalculators ==
    <<"mtbf", "duane_model", "test_sample_size",
      "dummy_calculator_1", "dummy_calculator_2", "dummy_calculator_3">>

SixIds == {SixCalculators[i] : i \in 1..Len(SixCalculators)}

\* C22: whatever requests have been served, list_calculators returns the
\* six calculators in registration order, get_calculator(id).info.id is id
\* for each of the six ids, get_calculator fails for every other id, and
\* the list and info endpoints answer accordingly.
C22_RegistryReadOnly ==
    /\ list_calculators = SixCalculators
    /\ \A id \in SixIds : get_calculator(id).exc = "" /\ InfoOf(id).id = id
    /\ \A id \in UnknownIds \ SixIds : get_calculator(id).exc = "ValueError"
    /\ Handled("get_available_calculators") => outcome = Returns(SixCalculators)
    /\ Handled("get_calculator_info") =>
          IF calculator_id \in SixIds
          THEN outcome.exc = "" /\ outcome.value.id = calculator_id
          ELSE outcome.exc = "ValueError" /\ status = 404

\* C22 witness: the list endpoint has answered with the six calculators in
\* registration order
C22_Witness ==
    /\ Handled("get_available_calculators")
    /\ outcome = Returns(SixCalculators)
    /\ status = 200
    /\ registry = CALCULATOR_REGISTRY

ConfidenceLevels == {80, 90, 95, 99}

\* target reliabilities within the declared range 0.1 .. 0.999, thousandths
Reliabilities == {50 * k : k \in 2..19} \cup {990, 999}

\* the inputs of a success_run request
SuccessRunInputs(confidence_level, target_reliability) ==
    "target_reliability" :> PyFloat(target_reliability)
    @@ "confidence_level" :> PyStr(ToString(confidence_level))
    @@ "test_type" :> PyStr("success_run")

InitSampleSize ==
    /\ registry = CALCULATOR_REGISTRY
    /\ NoTraffic
    /\ op = "start"
    /\ route = ""
    /\ calculator_id = "test_sample_size"
    /\ \E c \in ConfidenceLevels, r \in Reliabilities : inputs = SuccessRunInputs(c, r)
    /\ outcome = Pending
    /\ status = 0
    /\ detail = NoDetail

SuccessRun ==
    /\ op = "start"
    /\ op' = "calculate"
    /\ outcome' = TestSampleSizeCalculate(inputs)
    /\ UNCHANGED <<route, calculator_id, inputs, status, detail>>
    /\ UNCHANGED <<registry, service>>

NextSampleSize == SuccessRun

SpecSampleSize == InitSampleSize /\ [][NextSampleSize]_vars

(***************************************************************************)
(* Claims about the success_run sample size (checked under SpecSampleSize) *)
(***************************************************************************)
\* required_sample_size of the success_run result for the given inputs
RequiredSampleSize(confidence_level, target_reliability) ==
    TestSampleSizeCalculate(SuccessRunInputs(confidence_level, target_reliability))
        .value["required_sample_size"]

\* C21: the success_run required_sample_size does not decrease when the
\* confidence level is raised at the same target reliability, nor when the
\* target reliability is raised at the same confidence level; for 0.95 at
\* 90 % it is 45.
C21_SampleSizeMonotone ==
    op = "calculate" =>
        /\ outcome.exc = ""
        /\ \A c \in ConfidenceLevels :
              c >= outcome.value["confidence_level"] =>
                  RequiredSampleSize(c, outcome.value["target_reliability"])
                      >= outcome.value["required_sample_size"]
        /\ \A r \in Reliabilities :
              r >= outcome.value["target_reliability"] =>
                  RequiredSampleSize(outcome.value["confidence_level"], r)
                      >= outcome.value["required_sample_size"]
        /\ inputs = SuccessRunInputs(90, 950) => outcome.value["required_sample_size"] = 45

\* C21 witness: 0.95 at 90 % needs 45 units, fewer than at 95 % and fewer
\* than 0.99 needs at 90 %
C21_Witness ==
    /\ op = "calculate"
    /\ inputs = SuccessRunInputs(90, 950)
    /\ outcome.value["required_sample_size"] = 45
    /\ RequiredSampleSize(95, 950) > 45
    /\ RequiredSampleSize(90, 990) > 45

(***************************************************************************)
(* middleware/usage_tracker.py, auth/routes.py, auth/utils.py and          *)
(* database/models.py: the usage tracker in front of the routes.           *)
(*                                                                         *)
(* The clock counts days.  A JSON web token is the text "jwt" followed by  *)
(* the user id it was issued for; any other text fails verification, as    *)
(* an expired or forged token does.  Several requests are in flight at a   *)
(* time: dispatch awaits call_next, so that the limit check, the route and *)
(* the logging of different requests interleave; a step that holds no      *)
(* await is one action.  The detail of the 429 and the bodies of the       *)
(* responses are left out.                                                 *)
(***************************************************************************)
\* UsageTrackerMiddleware(app, daily_limit=10), as main.py adds it
daily_limit == 10

\* timedelta(days=1)
Day == 1

\* how many requests arrive
MaxRequests == 2

\* how far the clock runs, in days
MaxTime == 2

\* inputs the mtbf route answers 200, 400 and 500, in this order
Bodies ==
    << "failure_rate" :> PyFloat(1) @@ "confidence_level" :> PyStr("95"),
       <<>>,
       "failure_rate" :> PyInf @@ "confidence_level" :> PyStr("95") >>

\* a request as dispatch sees it, with the locals of dispatch: pc is the
\* position of the coroutine, user the id of the user found (0 for None),
\* status the status of the response or of the HTTPException raised
Request(path, authorization, host, body) ==
    [pc |-> "received", path |-> path, authorization |-> authorization,
     host |-> host, body |-> body, user |-> 0, status |-> 0]

\* the requests that may arrive: calculations of every caller, failing
\* calculations of an anonymous caller and of user 1, a calculation from a
\* second host, an example, the list, upgrades and a registration
Arrivals ==
    {Request("/api/calculators/calculate/mtbf", a, "10.0.0.1", Bodies[1]) :
        a \in {"", "Bearer bad", "Bearer jwt1", "Bearer jwt2"}}
    \cup {Request("/api/calculators/calculate/mtbf", "", "10.0.0.1", Bodies[k]) :
            k \in {2, 3}}
    \cup {Request("/api/calculators/calculate/mtbf", "Bearer jwt1", "10.0.0.1", Bodies[2]),
          Request("/api/calculators/calculate/mtbf", "", "10.0.0.2", Bodies[1]),
          Request("/api/calculators/calculate/mtbf/example", "", "10.0.0.1", <<>>),
          Request("/api/calculators/", "", "10.0.0.1", <<>>),
          Request("/api/auth/register", "", "10.0.0.1",
                  "email" :> PyStr("c@example.com"))}
    \cup {Request("/api/auth/upgrade", a, "10.0.0.1", <<>>) : a \in {"", "Bearer bad", "Bearer jwt1", "Bearer jwt2"}}

\* Tracked without the exception for the example paths
Tracked_Examples(path) == StartsWith(path, "/api/calculators/calculate")

\* the condition of dispatch's first lines (usage_tracker.py 19-20), negated
Tracked(path) ==
    StartsWith(path, "/api/calculators/calculate") /\ ~EndsWith(path, "/example")

\* verify_token(token): the payload's user_id, 0 when the decoding fails
verify_token(token) ==
    IF StartsWith(token, "jwt") /\ IsIntText(SubSeq(token, 4, Len(token)))
    THEN IntOfText(SubSeq(token, 4, Len(token)))
    ELSE 0

\* get_user_from_token(db, token): the id of the row found, 0 for None
get_user_from_token(token) ==
    IF verify_token(token) \in 1..Len(users) THEN verify_token(token) ELSE 0

\* the user of the Authorization header (usage_tracker.py 26-37,
\* auth/routes.py 108-113): 0 without a Bearer header
BearerUser(auth_header) ==
    IF auth_header # "" /\ StartsWith(auth_header, "Bearer ")
    THEN get_user_from_token(Split(auth_header, " ")[2])
    ELSE 0

\* CountedRows without the filter on the timestamp
CountedRows_Ever(user, ip_address) ==
    {i \in 1..Len(usage_logs) :
        /\ usage_logs[i].success
        /\ IF user # 0 THEN usage_logs[i].user_id = user
           ELSE usage_logs[i].ip_address = ip_address /\ usage_logs[i].user_id = 0}

\* the rows the query of _check_usage_limit counts (usage_tracker.py 91-107)
CountedRows(user, ip_address) ==
    {i \in 1..Len(usage_logs) :
        /\ usage_logs[i].timestamp >= now - Day
        /\ usage_logs[i].success
        /\ IF user # 0 THEN usage_logs[i].user_id = user
           ELSE usage_logs[i].ip_address = ip_address /\ usage_logs[i].user_id = 0}

\* _check_usage_limit without the shortcut for premium users
_check_usage_limit_Counted(user, ip_address) ==
    Cardinality(CountedRows(user, ip_address)) < daily_limit

\* UsageTrackerMiddleware._check_usage_limit(db, user, ip_address)
_check_usage_limit(user, ip_address) ==
    IF user # 0 /\ users[user].is_premium THEN TRUE
    ELSE Cardinality(CountedRows(user, ip_address)) < daily_limit

\* the row _log_usage adds; timestamp takes its default, datetime.utcnow
UsageLog(user, ip_address, calculator_type, success) ==
    [user_id |-> user, ip_address |-> ip_address,
     calculator_type |-> calculator_type, timestamp |-> now, success |-> success]

\* the status of the HTTPException the routes raise for an exception of
\* the calculator, 200 without one (routes.py 49-67, 123-129)
StatusOf(exc, for_value_error) ==
    IF exc = "" THEN 200
    ELSE IF exc = "ValueError" THEN for_value_error
    ELSE 500

\* the status the route of a path answers: get_calculation_example,
\* list_calculators and calculate
RouteStatus(path, body) ==
    IF EndsWith(path, "/example")
    THEN StatusOf(TryCalculate(Split(path, "/")[5],
                               ExampleInputs(FieldsOf(Split(path, "/")[5]))).exc, 404)
    ELSE IF path = "/api/calculators/" THEN 200
    ELSE StatusOf(TryCalculate(Split(path, "/")[5], body).exc, 400)

\* n rows of one caller written at day 0
RECURSIVE LoggedByOne(_, _, _)
LoggedByOne(user, ip_address, n) ==
    IF n = 0 THEN <<>>
    ELSE Append(LoggedByOne(user, ip_address, n - 1),
                [user_id |-> user, ip_address |-> ip_address,
                 calculator_type |-> "mtbf", timestamp |-> 0, success |-> TRUE])

\* The database outlives a restart: the service starts on the tables
\* earlier traffic has left, two registered users and either no usage or
\* the usage of one caller that is one short of the daily limit or at it.
\* No request has arrived.
InitUsage ==
    /\ op = "serving"
    /\ route = ""
    /\ calculator_id = ""
    /\ inputs = <<>>
    /\ outcome = Pending
    /\ status = 0
    /\ detail = NoDetail
    /\ registry = CALCULATOR_REGISTRY
    /\ users = << [email |-> "a@example.com", is_premium |-> FALSE],
                  [email |-> "b@example.com", is_premium |-> FALSE] >>
    /\ auth_tokens = <<>>
    /\ \E user \in {0, 1}, n \in {0, daily_limit - 1, daily_limit} :
          usage_logs = LoggedByOne(user, "10.0.0.1", n)
    /\ now = 0
    /\ requests = [r \in 1..MaxRequests |->
                      [Request("", "", "", <<>>) EXCEPT !.pc = "none"]]

\* a request reaches the middleware
Arrive(r) ==
    /\ requests[r].pc = "none"
    /\ \A q \in 1..(r - 1) : requests[q].pc # "none"
    /\ \E a \in Arrivals : requests' = [requests EXCEPT ![r] = a]
    /\ UNCHANGED <<op, route, calculator_id, inputs, outcome, status, detail, registry,
                   users, auth_tokens, usage_logs, now>>

\* dispatch up to call_next for a tracked path (usage_tracker.py 17-57):
\* the user is looked up and the limit checked; the HTTPException of a
\* caller over the limit ends the request
CheckLimit(r) ==
    /\ requests[r].pc = "received"
    /\ Tracked(requests[r].path)
    /\ requests' =
         [requests EXCEPT ![r] =
            IF _check_usage_limit(BearerUser(requests[r].authorization), requests[r].host)
            THEN [@ EXCEPT !.pc = "admitted",
                           !.user = BearerUser(requests[r].authorization)]
            ELSE [@ EXCEPT !.pc = "done", !.status = 429,
                           !.user = BearerUser(requests[r].authorization)]]
    /\ UNCHANGED <<op, route, calculator_id, inputs, outcome, status, detail, registry,
                   users, auth_tokens, usage_logs, now>>

\* response = await call_next(request) (usage_tracker.py 60): the route
\* answers, with an error status when the calculation fails
CallNext(r) ==
    /\ requests[r].pc = "admitted"
    /\ requests' = [requests EXCEPT ![r].pc = "responded",
                                    ![r].status = RouteStatus(requests[r].path,
                                                              requests[r].body)]
    /\ UNCHANGED <<op, route, calculator_id, inputs, outcome, status, detail, registry,
                   users, auth_tokens, usage_logs, now>>

\* the usage is logged and the response returned (usage_tracker.py 62-70)
LogUsage(r) ==
    /\ requests[r].pc = "responded"
    /\ usage_logs' = Append(usage_logs,
                            UsageLog(requests[r].user, requests[r].host,
                                     Split(requests[r].path, "/")[Len(Split(requests[r].path, "/"))],
                                     TRUE))
    /\ requests' = [requests EXCEPT ![r].pc = "done"]
    /\ UNCHANGED <<op, route, calculator_id, inputs, outcome, status, detail, registry,
                   users, auth_tokens, now>>

\* a path that is not tracked goes straight to its route
\* (usage_tracker.py 19-21): the list and the example of the calculators
PassThrough(r) ==
    /\ requests[r].pc = "received"
    /\ ~Tracked(requests[r].path)
    /\ StartsWith(requests[r].path, "/api/calculators/")
    /\ requests' = [requests EXCEPT ![r].pc = "done",
                                    ![r].status = RouteStatus(requests[r].path,
                                                              requests[r].body)]
    /\ UNCHANGED <<op, route, calculator_id, inputs, outcome, status, detail, registry,
                   users, auth_tokens, usage_logs, now>>

\* POST /api/auth/register (auth/routes.py 14-27, utils.create_user)
register(r) ==
    /\ requests[r].pc = "received"
    /\ requests[r].path = "/api/auth/register"
    /\ IF \E i \in 1..Len(users) : users[i].email = requests[r].body["email"].s
       THEN /\ requests' = [requests EXCEPT ![r].pc = "done", ![r].status = 400]
            /\ UNCHANGED users
       ELSE /\ users' = Append(users, [email |-> requests[r].body["email"].s,
                                       is_premium |-> FALSE])
            /\ requests' = [requests EXCEPT ![r].pc = "done", ![r].status = 200]
    /\ UNCHANGED <<op, route, calculator_id, inputs, outcome, status, detail, registry,
                   auth_tokens, usage_logs, now>>

\* upgrade_to_premium marking every user premium
upgrade_to_premium_Everyone(r) ==
    /\ requests[r].pc = "received"
    /\ requests[r].path = "/api/auth/upgrade"
    /\ IF BearerUser(requests[r].authorization) = 0
       THEN /\ requests' = [requests EXCEPT ![r].pc = "done", ![r].status = 401]
            /\ UNCHANGED <<users, auth_tokens>>
       ELSE /\ users' = [i \in 1..Len(users) |-> [users[i] EXCEPT !.is_premium = TRUE]]
            /\ auth_tokens' = Append(auth_tokens,
                                     [user_id |-> BearerUser(requests[r].authorization)])
            /\ requests' = [requests EXCEPT
                              ![r].pc = "done", ![r].status = 200,
                              ![r].user = BearerUser(requests[r].authorization)]
    /\ UNCHANGED <<op, route, calculator_id, inputs, outcome, status, detail, registry,
                   usage_logs, now>>

\* POST /api/auth/upgrade (auth/routes.py 102-134,
\* utils.generate_premium_token)
upgrade_to_premium(r) ==
    /\ requests[r].pc = "received"
    /\ requests[r].path = "/api/auth/upgrade"
    /\ IF BearerUser(requests[r].authorization) = 0
       THEN /\ requests' = [requests EXCEPT ![r].pc = "done", ![r].status = 401]
            /\ UNCHANGED <<users, auth_tokens>>
       ELSE /\ users' = [users EXCEPT
                           ![BearerUser(requests[r].authorization)].is_premium = TRUE]
            /\ auth_tokens' = Append(auth_tokens,
                                     [user_id |-> BearerUser(requests[r].authorization)])
            /\ requests' = [requests EXCEPT
                              ![r].pc = "done", ![r].status = 200,
                              ![r].user = BearerUser(requests[r].authorization)]
    /\ UNCHANGED <<op, route, calculator_id, inputs, outcome, status, detail, registry,
                   usage_logs, now>>

\* a day passes
Tick ==
    /\ now < MaxTime
    /\ now' = now + 1
    /\ UNCHANGED <<op, route, calculator_id, inputs, outcome, status, detail, registry,
                   users, auth_tokens, usage_logs, requests>>

NextUsage ==
    \/ \E r \in 1..MaxRequests : Arrive(r)
    \/ \E r \in 1..MaxRequests : CheckLimit(r)
    \/ \E r \in 1..MaxRequests : CallNext(r)
    \/ \E r \in 1..MaxRequests : LogUsage(r)
    \/ \E r \in 1..MaxRequests : PassThrough(r)
    \/ \E r \in 1..MaxRequests : register(r)
    \/ \E r \in 1..MaxRequests : upgrade_to_premium(r)
    \/ Tick

SpecUsage == InitUsage /\ [][NextUsage]_vars

(***************************************************************************)
(* Claims about the usage tracker.                                         *)
(***************************************************************************)
\* the paths the claims call exempt from the metering
Exempt(path) ==
    ~StartsWith(path, "/api/calculators/calculate") \/ EndsWith(path, "/example")

\* the caller holds a valid token of a premium user
Premium(user) == user # 0 /\ users[user].is_premium

\* the rows of the log recorded for a caller: those of the user, or those
\* of the host without a user
EntriesOf(user, host) ==
    {i \in 1..Len(usage_logs) :
        IF user # 0 THEN usage_logs[i].user_id = user
        ELSE usage_logs[i].ip_address = host /\ usage_logs[i].user_id = 0}

\* the tracker decides on request r in this step
Decided(r) ==
    /\ requests[r].pc = "received"
    /\ ~Exempt(requests[r].path)
    /\ requests'[r].pc # "received"

YoungerThanADay(user, host) ==
    {i \in EntriesOf(user, host) : now - usage_logs[i].timestamp < Day}

\* the caller's rows that are at most 24 hours old
AtMostADayOld(user, host) ==
    {i \in EntriesOf(user, host) : now - usage_logs[i].timestamp <= Day}

\* no other request is between its limit check and its log entry
OneAtATime(r) ==
    \A q \in 1..MaxRequests \ {r} : requests[q].pc \notin {"admitted", "responded"}

\* the tracker decides in this step on request r of a caller who is not
\* premium and has no other request in progress, where counted is the
\* number of the caller's rows that count: r is admitted exactly when
\* counted is below the daily limit, and otherwise ends with 429 and the
\* log as it was
Metered(r, counted) ==
    (/\ Decided(r)
     /\ ~Premium(BearerUser(requests[r].authorization))
     /\ OneAtATime(r))
        => /\ requests'[r].pc = "admitted" <=> counted < daily_limit
           /\ requests'[r].pc # "admitted"
                 => /\ requests'[r].pc = "done"
                    /\ requests'[r].status = 429
                    /\ usage_logs' = usage_logs

\* a request rejected with 429 goes no further: the calculator is not
\* invoked for it and it adds no row
RejectedIsOver(r) ==
    requests[r].status = 429
        => /\ requests'[r] = requests[r]
           /\ requests[r].pc = "done"

\* C25 as stated: a non-premium caller issuing calculate requests one at a
\* time is admitted exactly when fewer than daily_limit of the caller's rows
\* are less than 24 hours old, and is otherwise rejected with 429, without
\* the calculator being invoked or a row added.
C25_AdmittedBelowLimitStrict ==
    [][\A r \in 1..MaxRequests :
          /\ Metered(r, Cardinality(YoungerThanADay(BearerUser(requests[r].authorization),
                                                    requests[r].host)))
          /\ RejectedIsOver(r)]_vars

\* C25 amended: the rows that count are those at most 24 hours old, a row
\* written exactly 24 hours before the check included; rows older than that
\* stop counting, so the caller is admitted again.
C25_AdmittedBelowLimit ==
    [][\A r \in 1..MaxRequests :
          /\ Metered(r, Cardinality(AtMostADayOld(BearerUser(requests[r].authorization),
                                                  requests[r].host)))
          /\ RejectedIsOver(r)]_vars

\* C25 witness: an anonymous caller whose daily_limit rows are two days
\* old is admitted again
C25_Witness ==
    /\ now = 2
    /\ Len(usage_logs) = daily_limit
    /\ Cardinality(EntriesOf(0, "10.0.0.1")) = daily_limit
    /\ requests[1].pc = "admitted"
    /\ requests[1].authorization = ""
    /\ requests[1].host = "10.0.0.1"
    /\ requests[2].pc = "none"

\* request r is answered by upgrade_to_premium in this step
Upgrading(r) ==
    /\ requests[r].pc = "received"
    /\ requests[r].path = "/api/auth/upgrade"
    /\ requests'[r].pc = "done"

Logging(r) ==
    /\ requests[r].pc = "responded"
    /\ requests'[r].pc = "done"

\* C27: the tracker records a row only for a calculation that completed
\* successfully; a calculate request answered with an error status adds no
\* row.
C27_OnlySuccessLogged ==
    [][\A r \in 1..MaxRequests :
          (Logging(r) /\ requests[r].status # 200) => usage_logs' = usage_logs]_vars

\* C27 witness: the only request was answered 400 and the log of the
\* anonymous caller, empty before, holds a row for it
C27_Witness ==
    /\ requests[1].pc = "done"
    /\ requests[1].status = 400
    /\ requests[1].authorization = ""
    /\ requests[2].pc = "none"
    /\ Len(usage_logs) = 1
    /\ usage_logs[1].ip_address = requests[1].host
    /\ usage_logs[1].calculator_type = "mtbf"
    /\ usage_logs[1].success

\* the requests of a caller that passed the limit check and have not yet
\* added their row
InProgress(user, host) ==
    {r \in 1..MaxRequests :
        /\ requests[r].pc \in {"admitted", "responded"}
        /\ requests[r].user = user
        /\ user = 0 => requests[r].host = host}

\* C28: with the limit check, the calculation and the logging of a
\* non-premium caller's requests interleaved, the caller's requests admitted
\* within a 24-hour window never exceed daily_limit.  Until the first day
\* has passed every row of the log was written, and every request in
\* progress was admitted, within the same 24 hours.
C28_AdmittedWithinLimit ==
    now = 0 =>
        \A user \in 0..Len(users), host \in {"10.0.0.1", "10.0.0.2"} :
            ~Premium(user) =>
                Cardinality(EntriesOf(user, host))
                    + Cardinality(InProgress(user, host)) <= daily_limit

\* C28 witness: two requests of an anonymous caller with daily_limit - 1
\* rows were both admitted and have both added their row within the day
C28_Witness ==
    /\ now = 0
    /\ \A r \in 1..MaxRequests :
          /\ requests[r].pc = "done"
          /\ requests[r].status = 200
          /\ requests[r].path = "/api/calculators/calculate/mtbf"
          /\ requests[r].authorization = ""
          /\ requests[r].host = "10.0.0.1"
    /\ Cardinality(EntriesOf(0, "10.0.0.1")) = daily_limit + 1

\* C29: a request whose path does not start with /api/calculators/calculate,
\* or ends with /example, is never throttled and never adds a row, whatever
\* the caller's usage: it is answered in one step that leaves the log as it
\* is, with a status other than 429.
C29_ExemptPathsUntracked ==
    [][\A r \in 1..MaxRequests :
          (Exempt(requests[r].path) /\ requests'[r] # requests[r])
              => /\ usage_logs' = usage_logs
                 /\ requests'[r].pc \in {"received", "done"}
                 /\ requests'[r].status # 429]_vars

\* C29 witness: the example of a calculator is answered 200 for an
\* anonymous caller whose rows are at the daily limit
C29_Witness ==
    /\ now = 0
    /\ Cardinality(EntriesOf(0, "10.0.0.1")) = daily_limit
    /\ requests[1].path = "/api/calculators/calculate/mtbf/example"
    /\ requests[1].host = "10.0.0.1"
    /\ requests[1].authorization = ""
    /\ requests[1].pc = "done"
    /\ requests[1].status = 200
    /\ usage_logs = LoggedByOne(0, "10.0.0.1", daily_limit)

====
